---- MODULE Spec2Model ----
(***************************************************************************)
(* The client-side session store of the QC management front end            *)
(* (frontend/src/context/AuthContext.js): the auth state held by           *)
(* AuthProvider, the two localStorage keys it persists, and the handlers   *)
(* loadUser, login, register and logout.  The asynchronous handlers are    *)
(* split at their one suspension point, the await on axios.post.           *)
(***************************************************************************)
EXTENDS Integers, Sequences, FiniteSets, TLC

\* ------------------------------------------------------------------ bounds

\* The largest exp claim of a token, in seconds; the clock runs from 0 to half
\* a second past it.
MaxTime == 1
\* In-flight requests of one kind (login, register) at a time.
MaxPending == 1
\* User ids the backend knows (also the sub claim of the tokens it issues).
MaxUser == 2

\* Date.now() is in milliseconds, the exp claim in seconds.
MsPerSec == 1000

\* ------------------------------------------------------------------ values

\* JavaScript null for the token and user slots; null and undefined for the
\* string-valued slots (a username, a message).
NULL == <<>>
null == "null"
undefined == "undefined"

UserIds == 1..MaxUser
\* The backend's users: the username that goes with a user id.
UsernameOf(id) == CASE id = 1 -> "alice" [] id = 2 -> "bob" [] OTHER -> "carol"
Usernames == {UsernameOf(id) : id \in UserIds}
Exps == 1..MaxTime

\* A token is <<"jwt", sub, exp>>, <<"jwt", sub>> (a well-formed JWT whose
\* payload carries no exp claim) or <<"garbage">> (not a JWT at all).
JwtWithExp == {<<"jwt", s, e>> : s \in UserIds, e \in Exps}
JwtNoExp == {<<"jwt", s>> : s \in UserIds}
Malformed == {<<"garbage">>}
Tokens == JwtWithExp \cup JwtNoExp \cup Malformed

\* jwt_decode(token): the decoded payload, or a throw on a malformed token.
\* A claim the payload lacks reads as undefined.
jwt_decode(token) ==
    IF token[1] = "jwt"
    THEN [threw |-> FALSE, sub |-> token[2],
          hasExp |-> Len(token) = 3,
          exp |-> IF Len(token) = 3 THEN token[3] ELSE 0]
    ELSE [threw |-> TRUE, sub |-> 0, hasExp |-> FALSE, exp |-> 0]

\* decoded.exp < currentTime with currentTime = Date.now() / 1000; a
\* comparison with undefined is false.
ExpBeforeNow(decoded, nowMs) ==
    decoded.hasExp /\ decoded.exp * MsPerSec < nowMs

\* The state setAuth gives an unauthenticated session.
Unauthenticated ==
    [loading |-> FALSE, isAuthenticated |-> FALSE, user |-> NULL, token |-> NULL]

\* A value the || operator falls through: undefined, null or the empty string.
Falsy(s) == s \in {undefined, null, ""}

\* What the backend answers a login with: 200 and {access_token, user_id,
\* username}, the token a JWT whose sub is the user's id.
LoginData ==
    {[access_token |-> t, user_id |-> t[2], username |-> UsernameOf(t[2]),
      message |-> undefined] : t \in JwtWithExp \cup JwtNoExp}

\* What the backend answers a registration with.
RegisterData ==
    {[access_token |-> NULL, user_id |-> 0, username |-> null,
      message |-> "User registered successfully"]}

\* A rejected axios call: a network error carries no response; an error
\* response may carry a message, which may be empty.
Errors ==
    {[hasResponse |-> FALSE, message |-> undefined],
     [hasResponse |-> TRUE, message |-> undefined],
     [hasResponse |-> TRUE, message |-> ""],
     [hasResponse |-> TRUE, message |-> "Invalid credentials"]}

\* error.response?.data?.message
ResponseMessage(error) == IF error.hasResponse THEN error.message ELSE undefined

\* What a handler hands back to its caller: the object it returns, or a throw.
\* A handler that returns nothing returns undefined.
Returned(success, message) ==
    [returned |-> TRUE, threw |-> FALSE, success |-> success, message |-> message]
Void == [returned |-> FALSE, threw |-> FALSE, success |-> FALSE, message |-> undefined]

\* localStorage.setItem(key, value)
setItem(ls, key, value) == [ls EXCEPT ![key] = value]

\* localStorage.removeItem(key)
removeItem(ls, key) ==
    [ls EXCEPT ![key] = IF key = "token" THEN NULL ELSE null]

\* ---------------------------------------------------------------- handlers

\* useState's initial value of auth.
InitialAuth(ls) ==
    [loading |-> TRUE, isAuthenticated |-> FALSE, user |-> NULL, token |-> ls.token]

\* loadUser with the username left out of the session's user.
loadUser_DropsUsername(ls, nowMs) ==
    LET token == ls.token
        decoded == jwt_decode(token)
    IN  IF token = NULL
        THEN [auth |-> Unauthenticated, ls |-> ls]
        ELSE IF decoded.threw \/ ExpBeforeNow(decoded, nowMs)
        THEN [auth |-> Unauthenticated, ls |-> removeItem(ls, "token")]
        ELSE [auth |-> [loading |-> FALSE, isAuthenticated |-> TRUE,
                        user |-> <<decoded.sub, null>>, token |-> token],
              ls |-> ls]

\* loadUser: the session and the storage it leaves, from the storage it finds.
loadUser(ls, nowMs) ==
    LET token == ls.token
        decoded == jwt_decode(token)
    IN  IF token = NULL
        THEN [auth |-> Unauthenticated, ls |-> ls]
        ELSE IF decoded.threw
        THEN [auth |-> Unauthenticated, ls |-> removeItem(ls, "token")]
        ELSE IF ExpBeforeNow(decoded, nowMs)
        THEN [auth |-> Unauthenticated, ls |-> removeItem(ls, "token")]
        ELSE [auth |-> [loading |-> FALSE, isAuthenticated |-> TRUE,
                        user |-> <<decoded.sub, ls.username>>,
                        token |-> token],
              ls |-> ls]

\* What login returns on a rejection.
LoginFailure(error) ==
    Returned(FALSE, IF Falsy(ResponseMessage(error)) THEN "Authentication failed"
                    ELSE ResponseMessage(error))

\* login that persists the token but not the username.
login_SkipsUsername(a, ls, settled) ==
    IF settled.ok
    THEN [auth |-> [loading |-> FALSE, isAuthenticated |-> TRUE,
                    user |-> <<settled.data.user_id, settled.data.username>>,
                    token |-> settled.data.access_token],
          ls |-> setItem(ls, "token", settled.data.access_token),
          ret |-> Returned(TRUE, undefined)]
    ELSE [auth |-> a, ls |-> ls, ret |-> LoginFailure(settled.error)]

\* login that resets the session when its request fails.
login_ClearsOnFailure(a, ls, settled) ==
    IF settled.ok
    THEN [auth |-> [loading |-> FALSE, isAuthenticated |-> TRUE,
                    user |-> <<settled.data.user_id, settled.data.username>>,
                    token |-> settled.data.access_token],
          ls |-> setItem(setItem(ls, "token", settled.data.access_token),
                         "username", settled.data.username),
          ret |-> Returned(TRUE, undefined)]
    ELSE [auth |-> Unauthenticated, ls |-> removeItem(ls, "token"),
          ret |-> LoginFailure(settled.error)]

\* login that keeps the session's old token in the state it sets.
login_StaleToken(a, ls, settled) ==
    IF settled.ok
    THEN [auth |-> [loading |-> FALSE, isAuthenticated |-> TRUE,
                    user |-> <<settled.data.user_id, settled.data.username>>,
                    token |-> a.token],
          ls |-> setItem(setItem(ls, "token", settled.data.access_token),
                         "username", settled.data.username),
          ret |-> Returned(TRUE, undefined)]
    ELSE [auth |-> a, ls |-> ls, ret |-> LoginFailure(settled.error)]

\* login that sets the session without persisting anything.
login_SessionOnly(a, ls, settled) ==
    IF settled.ok
    THEN [auth |-> [loading |-> FALSE, isAuthenticated |-> TRUE,
                    user |-> <<settled.data.user_id, settled.data.username>>,
                    token |-> settled.data.access_token],
          ls |-> ls,
          ret |-> Returned(TRUE, undefined)]
    ELSE [auth |-> a, ls |-> ls, ret |-> LoginFailure(settled.error)]

\* login, from the point its axios.post settles: settled.ok with the response
\* body in settled.data, or the rejection in settled.error.
login(a, ls, settled) ==
    IF settled.ok
    THEN LET data == settled.data
         IN  [auth |-> [loading |-> FALSE, isAuthenticated |-> TRUE,
                        user |-> <<data.user_id, data.username>>,
                        token |-> data.access_token],
              ls |-> setItem(setItem(ls, "token", data.access_token),
                             "username", data.username),
              ret |-> Returned(TRUE, undefined)]
    ELSE [auth |-> a, ls |-> ls, ret |-> LoginFailure(settled.error)]

\* register that logs the new user in when the registration succeeds.
register_LogsIn(a, ls, settled) ==
    IF settled.ok
    THEN [auth |-> [a EXCEPT !.isAuthenticated = TRUE], ls |-> ls,
          ret |-> Returned(TRUE, settled.data.message)]
    ELSE [auth |-> a, ls |-> ls, ret |-> Returned(FALSE, "Registration failed")]

\* register, from the point its axios.post settles.
register(a, ls, settled) ==
    IF settled.ok
    THEN [auth |-> a, ls |-> ls, ret |-> Returned(TRUE, settled.data.message)]
    ELSE LET message == ResponseMessage(settled.error)
         IN  [auth |-> a, ls |-> ls,
              ret |-> Returned(FALSE, IF Falsy(message) THEN "Registration failed"
                                      ELSE message)]

\* logout that puts the session back into loading.
logout_BackToLoading(a, ls) ==
    [auth |-> [Unauthenticated EXCEPT !.loading = TRUE],
     ls |-> removeItem(removeItem(ls, "token"), "username"),
     ret |-> Void]

\* logout that leaves the persisted token behind.
logout_KeepsToken(a, ls) ==
    [auth |-> Unauthenticated, ls |-> removeItem(ls, "username"), ret |-> Void]

\* logout that leaves the persisted username behind.
logout_KeepsUsername(a, ls) ==
    [auth |-> Unauthenticated, ls |-> removeItem(ls, "token"), ret |-> Void]

\* logout
logout(a, ls) ==
    [auth |-> Unauthenticated,
     ls |-> removeItem(removeItem(ls, "token"), "username"),
     ret |-> Void]

\* ------------------------------------------------- default request header

\* The value `Bearer ${token}` of the Authorization header.
Bearer(token) == <<"Bearer", token>>

\* The header effect of AuthProvider, run with the token of the render it
\* belongs to: sets axios.defaults.headers.common.Authorization or deletes it.
headerEffect(ax, token) ==
    IF token # NULL THEN [ax EXCEPT !.Authorization = Bearer(token)]
    ELSE [ax EXCEPT !.Authorization = NULL]

\* A request through the axios default instance: the headers it goes out with
\* are the defaults at the moment of the call.
axios_request(ax, a) ==
    [any |-> TRUE, Authorization |-> ax.Authorization, token |-> a.token]

\* Nothing sent yet.
NoRequest == [any |-> FALSE, Authorization |-> NULL, token |-> NULL]

\* ------------------------------------------------------------- route guard

\* What PrivateRoute renders in place of its children.
Spinner == "spinner-border"
NavigateToLogin == "Navigate to=/login"

\* A guard that lets anyone holding a token through.
PrivateRoute_TokenOnly(a, children) ==
    IF a.token # NULL THEN children ELSE NavigateToLogin

\* PrivateRoute: what the guard renders for the session a.
PrivateRoute(a, children) ==
    IF a.loading THEN Spinner
    ELSE IF a.isAuthenticated THEN children ELSE NavigateToLogin

\* App's route table: the paths behind PrivateRoute and the open ones.
ProtectedPaths ==
    {"/companies", "/products", "/classcounts", "/images/manage",
     "/label-studio-api-key", "/labeling-projects", "/label-studio"}
PublicPaths == {"/", "/login", "/register"}
Paths == ProtectedPaths \cup PublicPaths

\* The component a route names.
Element(path) ==
    CASE path = "/" -> "Home"
      [] path = "/login" -> "Login"
      [] path = "/register" -> "Register"
      [] path = "/companies" -> "Companies"
      [] path = "/products" -> "Products"
      [] path = "/classcounts" -> "ClassCounts"
      [] path = "/images/manage" -> "ImageManagerPage"
      [] path = "/label-studio-api-key" -> "LabelStudioCredentials"
      [] path = "/labeling-projects" -> "LabelingProjects"
      [] path = "/label-studio" -> "LabelStudioManager"

\* What App renders at a path for the session a.
App(path, a) ==
    IF path \in ProtectedPaths THEN PrivateRoute(a, Element(path))
    ELSE Element(path)

\* ----------------------------------------------------------- Steps (view)

\* Products the backend knows.
MaxProduct == 2
\* Writes one Steps page sends before it is left.
MaxWrites == 2

\* Array.from({ length: 20 }, (_, i) => i + 1)
MaxStepNumber == 20
\* The id of no step: currentStep.id before a step is picked, the default of
\* excludeStepId (null in the source; ids are positive).
NoId == 0

ProductIds == 1..MaxProduct

\* Values of the form's two numeric fields: a number, NaN, the empty string,
\* or the decimal string of a number (the value of an <option>).
Num(n) == <<"number", n>>
NaN == <<"NaN">>
EmptyString == <<"string">>
Str(n) == <<"string", n>>

\* parseInt(value, 10)
parseInt(value) ==
    IF value[1] = "number" THEN value
    ELSE IF value[1] = "string" /\ Len(value) = 2 THEN Num(value[2])
    ELSE NaN

\* !value
Not(value) == value \in {EmptyString, NaN, Num(0)}

\* The texts typed into the name field, and name.trim().
Names == {"", "  ", "Cut"}
trim(name) == IF name \in {"", " ", "  "} THEN "" ELSE name

\* A step as the backend lists it.
Row(id, productId, stepNumber) ==
    [id |-> id, name |-> "Cut", product_id |-> productId, step_number |-> stepNumber]

\* getAvailableStepNumbers that counts the edited step's own number as taken.
getAvailableStepNumbers_CountsSelf(steps, productId, excludeStepId) ==
    IF Not(productId) THEN <<>>
    ELSE LET usedStepNumbers ==
                 {step.step_number :
                      step \in {st \in steps : Num(st.product_id) = parseInt(productId)}}
             allStepNumbers == [i \in 1..MaxStepNumber |-> i]
         IN  SelectSeq(allStepNumbers, LAMBDA num : num \notin usedStepNumbers)

\* getAvailableStepNumbers(productId, excludeStepId = null) over the steps held.
getAvailableStepNumbers(steps, productId, excludeStepId) ==
    IF Not(productId) THEN <<>>
    ELSE LET usedStepNumbers ==
                 {step.step_number :
                      step \in {st \in steps : /\ Num(st.product_id) = parseInt(productId)
                                               /\ st.id # excludeStepId}}
             allStepNumbers == [i \in 1..MaxStepNumber |-> i]
         IN  SelectSeq(allStepNumbers, LAMBDA num : num \notin usedStepNumbers)

\* useState's initial values of the Steps component.
StepsInitial ==
    [steps |-> {}, loading |-> TRUE, error |-> "",
     showAddModal |-> FALSE, showEditModal |-> FALSE, showDeleteModal |-> FALSE,
     currentStep |-> [id |-> NoId, name |-> "", product_id |-> 0, step_number |-> 0],
     formData |-> [name |-> "", product_id |-> EmptyString, step_number |-> EmptyString]]

handleAddShow(S) ==
    [S EXCEPT !.formData = [name |-> "", product_id |-> EmptyString,
                            step_number |-> Str(1)],
              !.showAddModal = TRUE]

handleEditShow(S, step) ==
    [S EXCEPT !.currentStep = step,
              !.formData = [name |-> step.name, product_id |-> Num(step.product_id),
                            step_number |-> Num(step.step_number)],
              !.showEditModal = TRUE]

handleDeleteShow(S, step) ==
    [S EXCEPT !.currentStep = step, !.showDeleteModal = TRUE]

handleClose(S) ==
    [S EXCEPT !.showAddModal = FALSE, !.showEditModal = FALSE,
              !.showDeleteModal = FALSE]

\* handleChange for the field e.target.name with the text e.target.value.
handleChange(S, name, value) ==
    IF name = "product_id"
    THEN [S EXCEPT !.formData.product_id = parseInt(value),
                   !.formData.step_number = EmptyString]
    ELSE [S EXCEPT !.formData[name] =
              IF name \in {"product_id", "step_number"} THEN parseInt(value) ELSE value]

\* The checks handleAdd and handleEdit open with: the message of the first one
\* that fails, or "" when all pass.
StepRequired(formData) ==
    IF trim(formData.name) = "" THEN "Step name is required"
    ELSE IF Not(formData.product_id) THEN "Product is required"
    ELSE IF Not(formData.step_number) THEN "Step number is required"
    ELSE ""

\* No request.
NoCall == [op |-> "none", id |-> NoId,
           data |-> [name |-> "", product_id |-> EmptyString, step_number |-> EmptyString]]

\* handleAdd up to its await: the page it leaves and the call it makes, if any.
handleAdd(S) ==
    IF StepRequired(S.formData) # ""
    THEN [page |-> [S EXCEPT !.error = StepRequired(S.formData)], call |-> NoCall]
    ELSE [page |-> [S EXCEPT !.loading = TRUE],
          call |-> [op |-> "createStep", id |-> NoId, data |-> S.formData]]

\* handleEdit up to its await.
handleEdit(S) ==
    IF StepRequired(S.formData) # ""
    THEN [page |-> [S EXCEPT !.error = StepRequired(S.formData)], call |-> NoCall]
    ELSE [page |-> [S EXCEPT !.loading = TRUE],
          call |-> [op |-> "updateStep", id |-> S.currentStep.id, data |-> S.formData]]

\* handleDelete up to its await.
handleDelete(S) ==
    [page |-> [S EXCEPT !.loading = TRUE],
     call |-> [op |-> "deleteStep", id |-> S.currentStep.id, data |-> NoCall.data]]

\* The prefix a handler puts before response.error.
ErrorPrefix(op) ==
    CASE op = "createStep" -> "Error adding step: "
      [] op = "updateStep" -> "Error updating step: "
      [] op = "deleteStep" -> "Error deleting step: "

\* A handler from the point its write settles: on success fetchData starts
\* (up to its await), otherwise the error is shown and the handler ends.
stepWriteSettled(S, op, response) ==
    IF response.success
    THEN [S EXCEPT !.loading = TRUE, !.error = ""]
    ELSE [S EXCEPT !.error = ErrorPrefix(op) \o response.error, !.loading = FALSE]

\* fetchData from the point its two gets settle, and then the rest of the
\* handler that awaited it (none for the mount effect).
stepsFetched(S, op, stepsResponse, productsResponse) ==
    LET e1 == IF stepsResponse.success THEN S.error
              ELSE "Failed to fetch steps: " \o stepsResponse.error
        e2 == IF productsResponse.success THEN e1
              ELSE e1 \o " Failed to fetch products: " \o productsResponse.error
        F == [S EXCEPT !.steps = IF stepsResponse.success THEN stepsResponse.data ELSE @,
                       !.error = e2, !.loading = FALSE]
    IN  CASE op = "createStep" ->
                 [F EXCEPT !.showAddModal = FALSE,
                           !.formData = [name |-> "", product_id |-> EmptyString,
                                         step_number |-> Str(1)]]
          [] op = "updateStep" -> [F EXCEPT !.showEditModal = FALSE]
          [] op = "deleteStep" -> [F EXCEPT !.showDeleteModal = FALSE]
          [] OTHER -> F

\* The id the backend gives a new step: one past the largest it holds.
NextId(rows) ==
    1 + (CHOOSE m \in {row.id : row \in rows} \cup {0} :
             \A row \in rows : row.id <= m)

\* stepNumber is unique per productId.
UniqueStepNumbers(rows) ==
    \A r1 \in rows, r2 \in rows :
        (r1.product_id = r2.product_id /\ r1.step_number = r2.step_number) =>
            r1.id = r2.id

\* Step lists a backend may hold: a product with steps at 1, 3 and 5; a product
\* with one number left and another product's step; a full product likewise.
StepLists ==
    {{Row(1, 1, 1), Row(2, 1, 3), Row(3, 1, 5)},
     {Row(n, 1, n) : n \in 1..(MaxStepNumber - 1)} \cup {Row(MaxStepNumber + 1, MaxProduct, 7)},
     {Row(n, 1, n) : n \in 1..MaxStepNumber} \cup {Row(MaxStepNumber + 1, MaxProduct, 7)}}

\* The backend's steps after it has carried out a write.
ApplyStepWrite(rows, call) ==
    CASE call.op = "createStep" ->
             rows \cup {[id |-> NextId(rows),
                         name |-> call.data.name,
                         product_id |-> parseInt(call.data.product_id)[2],
                         step_number |-> parseInt(call.data.step_number)[2]]}
      [] call.op = "updateStep" ->
             {IF row.id = call.id
              THEN [id |-> row.id, name |-> call.data.name,
                    product_id |-> parseInt(call.data.product_id)[2],
                    step_number |-> parseInt(call.data.step_number)[2]]
              ELSE row : row \in rows}
      [] call.op = "deleteStep" -> {row \in rows : row.id # call.id}

\* ------------------------------------------------------------ CRUD views
\* Companies, Products and ClassCounts are one component three times over: a
\* collection, a form, three modals and the handlers fetch, handleAdd,
\* handleEdit and handleDelete.  The form's text field is name (class in
\* ClassCounts) and its foreign key parent_id (company_id in Products,
\* product_id in ClassCounts, none in Companies); image_url is never checked.

\* Writes one CRUD page sends before it is left.
MaxCrudWrites == 1

Entities == {"company", "product", "class"}
HasParent(entity) == entity # "company"
\* The ids the parent select offers.
ParentIds == 1..MaxProduct

NameRequired(entity) ==
    CASE entity = "company" -> "Company name is required"
      [] entity = "product" -> "Product name is required"
      [] entity = "class" -> "Class is required"

ParentRequired(entity) ==
    CASE entity = "product" -> "Company is required"
      [] entity = "class" -> "Product is required"
      [] OTHER -> ""

\* 'Error adding company: ' and its like.
WriteErrorPrefix(entity, op) ==
    (CASE op = "create" -> "Error adding "
       [] op = "update" -> "Error updating "
       [] op = "delete" -> "Error deleting ") \o entity \o ": "

\* What fetch reports when the collection's get fails, and what fetchData
\* adds when the get of the parents fails.
FetchErrorPrefix(entity) ==
    CASE entity = "company" -> "Failed to fetch companies: "
      [] entity = "product" -> "Failed to fetch products: "
      [] entity = "class" -> "Failed to fetch class counts: "
ParentsErrorPrefix(entity) ==
    CASE entity = "product" -> " Failed to fetch companies: "
      [] entity = "class" -> " Failed to fetch products: "
      [] OTHER -> ""

\* An item as the backend lists it.
Item(id, parentId) == [id |-> id, name |-> "Acme", parent_id |-> parentId]

EmptyForm == [name |-> "", parent_id |-> EmptyString]

\* useState's initial values.
CrudInitial(entity) ==
    [entity |-> entity, items |-> {}, loading |-> TRUE, error |-> "",
     showAddModal |-> FALSE, showEditModal |-> FALSE, showDeleteModal |-> FALSE,
     current |-> [id |-> NoId, name |-> "", parent_id |-> 0],
     formData |-> EmptyForm]

crud_handleAddShow(V) == [V EXCEPT !.formData = EmptyForm, !.showAddModal = TRUE]

crud_handleEditShow(V, item) ==
    [V EXCEPT !.current = item,
              !.formData = [name |-> item.name,
                            parent_id |-> IF HasParent(V.entity) THEN Num(item.parent_id)
                                          ELSE EmptyString],
              !.showEditModal = TRUE]

crud_handleDeleteShow(V, item) == [V EXCEPT !.current = item, !.showDeleteModal = TRUE]

crud_handleClose(V) ==
    [V EXCEPT !.showAddModal = FALSE, !.showEditModal = FALSE, !.showDeleteModal = FALSE]

crud_handleChange(V, name, value) ==
    [V EXCEPT !.formData[name] = IF name = "parent_id" THEN parseInt(value) ELSE value]

\* The checks handleAdd and handleEdit open with: the message of the first one
\* that fails, or "" when all pass.
Required(entity, formData) ==
    IF trim(formData.name) = "" THEN NameRequired(entity)
    ELSE IF HasParent(entity) /\ Not(formData.parent_id) THEN ParentRequired(entity)
    ELSE ""

NoWrite == [op |-> "none", id |-> NoId, data |-> EmptyForm]

\* handleAdd that takes a blank name for a name.
crud_handleAdd_NoTrim(V) ==
    IF V.formData.name = "" \/ Required(V.entity, [V.formData EXCEPT !.name = "x"]) # ""
    THEN [view |-> [V EXCEPT !.error = Required(V.entity, V.formData)], call |-> NoWrite]
    ELSE [view |-> [V EXCEPT !.loading = TRUE],
          call |-> [op |-> "create", id |-> NoId, data |-> V.formData]]

\* handleAdd up to its await: the view it leaves and the call it makes, if any.
crud_handleAdd(V) ==
    IF Required(V.entity, V.formData) # ""
    THEN [view |-> [V EXCEPT !.error = Required(V.entity, V.formData)], call |-> NoWrite]
    ELSE [view |-> [V EXCEPT !.loading = TRUE],
          call |-> [op |-> "create", id |-> NoId, data |-> V.formData]]

\* handleEdit up to its await.
crud_handleEdit(V) ==
    IF Required(V.entity, V.formData) # ""
    THEN [view |-> [V EXCEPT !.error = Required(V.entity, V.formData)], call |-> NoWrite]
    ELSE [view |-> [V EXCEPT !.loading = TRUE],
          call |-> [op |-> "update", id |-> V.current.id, data |-> V.formData]]

\* handleDelete up to its await.
crud_handleDelete(V) ==
    [view |-> [V EXCEPT !.loading = TRUE],
     call |-> [op |-> "delete", id |-> V.current.id, data |-> EmptyForm]]

\* A handler from the point its write settles: on success the fetch starts
\* (up to its await), otherwise the error is shown and the handler ends.
crud_writeSettled(V, op, response) ==
    IF response.success
    THEN [V EXCEPT !.loading = TRUE, !.error = ""]
    ELSE [V EXCEPT !.error = WriteErrorPrefix(V.entity, op) \o response.error,
                   !.loading = FALSE]

\* A handler that refreshes after its write whatever the write's outcome.
crud_afterWrite_Always(response) == "fetch"

\* What a handler awaits next once its write has settled: the fetch when the
\* write succeeded, nothing when it failed.
crud_afterWrite(response) == IF response.success THEN "fetch" ELSE "none"

\* The fetch from the point its gets settle (one get in Companies, the
\* collection's and the parents' elsewhere), and then the rest of the handler
\* that awaited it (none for the mount effect).
crud_fetched(V, call, response, parentsResponse) ==
    LET e1 == IF response.success THEN V.error
              ELSE FetchErrorPrefix(V.entity) \o response.error
        e2 == IF ~HasParent(V.entity) \/ parentsResponse.success THEN e1
              ELSE e1 \o ParentsErrorPrefix(V.entity) \o parentsResponse.error
        F == [V EXCEPT !.items = IF response.success THEN response.data ELSE @,
                       !.error = e2, !.loading = FALSE]
    IN  CASE call.op = "create" -> [F EXCEPT !.showAddModal = FALSE, !.formData = EmptyForm]
          [] call.op = "update" -> [F EXCEPT !.showEditModal = FALSE]
          [] call.op = "delete" -> [F EXCEPT !.showDeleteModal = FALSE]
          [] OTHER -> F

\* The backend's collection after it has carried out a write.
ApplyWrite(rows, call) ==
    CASE call.op = "create" ->
             rows \cup {[id |-> NextId(rows), name |-> call.data.name,
                         parent_id |-> IF call.data.parent_id[1] = "number"
                                       THEN call.data.parent_id[2] ELSE 0]}
      [] call.op = "update" ->
             {IF row.id = call.id
              THEN [id |-> row.id, name |-> call.data.name,
                    parent_id |-> IF call.data.parent_id[1] = "number"
                                  THEN call.data.parent_id[2] ELSE row.parent_id]
              ELSE row : row \in rows}
      [] call.op = "delete" -> {row \in rows : row.id # call.id}

\* Collections a backend may hold.
CrudLists(entity) ==
    LET parent(id) == IF HasParent(entity) THEN id ELSE 0
    IN  {{}, {Item(1, parent(1))}, {Item(1, parent(1)), Item(2, parent(MaxProduct))}}

\* --------------------------------------------------------- ProjectCreator
\* The state hooks and refs of ProjectCreator, and with them what the last
\* committed render left behind: the props of the buttons and of the select
\* (rendered) and the values the memoised handlers closed over (closure).

\* a || b for a message a
OrElse(a, b) == IF a \in {undefined, ""} THEN b ELSE a

NoController == [set |-> FALSE, aborted |-> FALSE]
AbortController == [set |-> TRUE, aborted |-> FALSE]

CreatorInitial ==
    [selectedProduct |-> EmptyString, loading |-> FALSE, success |-> "", error |-> "",
     hasApiKey |-> FALSE, importingImages |-> FALSE, importSuccess |-> "",
     isCreatingRef |-> FALSE, isImportingRef |-> FALSE,
     abortControllerRef |-> NoController,
     rendered |-> [selectedProduct |-> EmptyString, loading |-> FALSE,
                   importingImages |-> FALSE],
     closure |-> [selectedProduct |-> EmptyString, loading |-> FALSE,
                  importingImages |-> FALSE]]

\* What a render shows of the state.
Shown(P) ==
    [selectedProduct |-> P.selectedProduct, loading |-> P.loading,
     importingImages |-> P.importingImages]

\* A render commits: the DOM takes the state's values, createProject is made
\* anew if selectedProduct changed (its loading is that render's), and
\* importImagesForProject is made anew whenever the component renders.
commit(P) ==
    [P EXCEPT !.rendered = Shown(P),
              !.closure = [selectedProduct |-> P.selectedProduct,
                           loading |-> IF P.selectedProduct # @.selectedProduct
                                       THEN P.loading ELSE @.loading,
                           importingImages |-> P.importingImages]]

\* What an invocation did: the component it left, whether it sent its request
\* and whether it asked the controller it found to abort.
Invoked(P, sent, aborted) == [creator |-> P, sent |-> sent, aborted |-> aborted]

\* createProject up to its await.
createProject(P) ==
    IF Not(P.closure.selectedProduct)
    THEN Invoked([P EXCEPT !.error = "Please select a product"], FALSE, FALSE)
    ELSE IF P.closure.loading \/ P.isCreatingRef
    THEN Invoked(P, FALSE, FALSE)
    ELSE Invoked([P EXCEPT !.abortControllerRef = AbortController,
                           !.isCreatingRef = TRUE,
                           !.loading = TRUE, !.error = "", !.success = ""],
                 TRUE, P.abortControllerRef.set)

\* fetchProducts from the point its get settles.
fetchProducts(P, fetched) ==
    IF fetched THEN P ELSE [P EXCEPT !.error = "Failed to fetch products"]

\* checkApiKey from the point its get settles: outcome is "has_key", "no_key"
\* or "error".
checkApiKey(P, outcome) == [P EXCEPT !.hasApiKey = (outcome = "has_key")]

\* The config of the post a handler sends: the signal in it, if any.
RequestSignal(op, P) == IF op = "createProject" THEN P.abortControllerRef ELSE NoController

\* createSettled whose catch returns on AbortError without the finally.
createSettled_AbortSkipsFinally(P, outcome, message, fetched) ==
    IF outcome = "abort" THEN P
    ELSE [(IF outcome = "ok"
           THEN (IF ~P.abortControllerRef.aborted
                 THEN fetchProducts(commit([P EXCEPT !.success = "Project created successfully!",
                                                     !.selectedProduct = EmptyString]),
                                    fetched)
                 ELSE P)
           ELSE [P EXCEPT !.error = OrElse(message, "Failed to create project")])
             EXCEPT !.loading = FALSE, !.isCreatingRef = FALSE,
                    !.abortControllerRef = NoController]

\* createProject from the point its post settles: outcome is "ok", "error"
\* (message is the server's error, undefined without one) or "abort".  The
\* component renders while fetchProducts is awaited, loading still true.
createSettled(P, outcome, message, fetched) ==
    LET T == CASE outcome = "ok" ->
                      IF ~P.abortControllerRef.aborted
                      THEN fetchProducts(commit([P EXCEPT !.success = "Project created successfully!",
                                                          !.selectedProduct = EmptyString]),
                                         fetched)
                      ELSE P
               [] outcome = "abort" -> P
               [] OTHER -> [P EXCEPT !.error = OrElse(message, "Failed to create project")]
    IN  [T EXCEPT !.loading = FALSE, !.isCreatingRef = FALSE,
                  !.abortControllerRef = NoController]

\* importImagesForProject up to its await.
importImagesForProject(P) ==
    IF P.closure.importingImages \/ P.isImportingRef
    THEN Invoked(P, FALSE, FALSE)
    ELSE Invoked([P EXCEPT !.isImportingRef = TRUE, !.importingImages = TRUE,
                           !.error = "", !.importSuccess = ""],
                 TRUE, FALSE)

\* importImagesForProject from the point its post settles.
importSettled(P, outcome, message, fetched) ==
    LET T == IF outcome = "ok"
             THEN fetchProducts([P EXCEPT !.importSuccess = "Images imported"], fetched)
             ELSE [P EXCEPT !.error = OrElse(message, "Failed to import images")]
    IN  [T EXCEPT !.importingImages = FALSE, !.isImportingRef = FALSE]

VARIABLES
    auth,          \* AuthProvider's auth state
    localStorage,  \* the two persisted keys: token, username
    now,           \* Date.now(), in milliseconds
    inflight,      \* requests awaiting their response, per kind
    last,          \* the handler that ran last: what settled it, what it returned
    pre,           \* auth, localStorage, inflight and now as that handler found them
    hist,          \* the last three handlers that ran, oldest first
    axios,         \* axios.defaults.headers.common
    headerDeps,    \* the header effect: whether it has run, and for which token
    writes,        \* a view's writes awaiting their response; the last request sent
    stepsPage,     \* the state hooks of the Steps component
    stepsBackend,  \* the server's steps, the Steps request in flight, the writes sent
    crud,          \* the state hooks of a CRUD view (Companies, Products, ClassCounts)
    crudBackend,   \* the server's collection, the view's request in flight, what ran last
    creator,       \* the state hooks and refs of ProjectCreator
    creatorBackend, \* ProjectCreator's requests in flight and what was invoked last
    gateway,       \* a call of the API service: operation, backend outcome, result
    capture,       \* the state hooks of CaptureImage
    captureBackend, \* CaptureImage's post in flight, the refreshes it asked for, what ran last
    imagePage,     \* the state hooks of ImageManagerPage
    imageBackend   \* the server's images, the page's requests in flight, what ran last

sessionVars == <<auth, localStorage, now, inflight, last, pre, hist>>
headerVars == <<axios, headerDeps, writes>>
stepsVars == <<stepsPage, stepsBackend>>
\* The pages' variables, which the session store and its header effect leave alone.
crudVars == <<crud, crudBackend>>
creatorVars == <<creator, creatorBackend>>
gatewayVars == <<gateway>>
imageVars == <<capture, captureBackend, imagePage, imageBackend>>
pageVars == <<stepsVars, crudVars, creatorVars, gatewayVars, imageVars>>
viewVars == <<headerVars, pageVars>>
vars == <<sessionVars, viewVars>>

\* Fillers for the fields of last that a handler has no use for.
NoData == [access_token |-> NULL, user_id |-> 0, username |-> null, message |-> undefined]
NoError == [hasResponse |-> FALSE, message |-> undefined]

Ran(op, data, error, ret) == [op |-> op, data |-> data, error |-> error, ret |-> ret]

Push(h, op) == IF Len(h) < 3 THEN Append(h, op) ELSE Append(Tail(h), op)

Snapshot ==
    [auth |-> auth, localStorage |-> localStorage, inflight |-> inflight, now |-> now]

\* A Steps page that is not open.
\* A component that is not mounted has no state.
NotMounted == [mounted |-> FALSE]

StepsIdle ==
    /\ stepsPage = NotMounted
    /\ stepsBackend = NotMounted

\* What ran last in a CRUD view: the handler and how far it got, whether its
\* refresh succeeded, and the collection it started from.
CrudRan(op, stage, refreshed, before) ==
    [op |-> op, stage |-> stage, refreshed |-> refreshed, before |-> before]

\* A CRUD view that is not mounted.
CrudIdle ==
    /\ crud = NotMounted
    /\ crudBackend = NotMounted

\* What ran last in ProjectCreator: the handler and how its request ended,
\* the posts that were in flight when it was invoked, whether it sent one,
\* whether it asked for an abort, and whether it changed the component.
CreatorRan(op, outcome, posts, sent, aborted, changed) ==
    [op |-> op, outcome |-> outcome, inflight |-> posts, sent |-> sent,
     aborted |-> aborted, changed |-> changed]

\* A ProjectCreator that is not mounted.
CreatorIdle ==
    /\ creator = NotMounted
    /\ creatorBackend = NotMounted

\* No call of the API service.
GatewayIdle == gateway = [stage |-> "none"]

\* CaptureImage and ImageManagerPage, not mounted.
ImageIdle ==
    /\ capture = NotMounted
    /\ captureBackend = NotMounted
    /\ imagePage = NotMounted
    /\ imageBackend = NotMounted

PagesIdle == StepsIdle /\ CrudIdle /\ CreatorIdle /\ GatewayIdle /\ ImageIdle

\* A session that stays as hydration left it while a page is at work.
SessionIdle ==
    /\ localStorage = [token |-> <<"jwt", 1>>, username |-> "alice"]
    /\ auth = loadUser(localStorage, 0).auth
    /\ now = 0
    /\ inflight = [login |-> 0, register |-> 0]
    /\ last = Ran("loadUser", NoData, NoError, Void)
    /\ pre = [auth |-> InitialAuth(localStorage), localStorage |-> localStorage,
              inflight |-> inflight, now |-> now]
    /\ hist = <<"mount", "loadUser">>

\* A page that has sent nothing and whose header effect has not run.
HeaderIdle ==
    /\ axios = [Authorization |-> NULL]
    /\ headerDeps = [ran |-> FALSE, token |-> NULL]
    /\ writes = [pending |-> 0, issued |-> NoRequest]

Init ==
    /\ localStorage \in [token : Tokens \cup {NULL}, username : Usernames \cup {null}]
    /\ auth = InitialAuth(localStorage)
    /\ now = 0
    /\ inflight = [login |-> 0, register |-> 0]
    /\ last = Ran("mount", NoData, NoError, Void)
    /\ pre = [auth |-> auth, localStorage |-> localStorage,
              inflight |-> inflight, now |-> now]
    /\ hist = <<"mount">>
    /\ HeaderIdle
    /\ PagesIdle

\* The mount effect: loadUser runs once, while auth.loading.
LoadUser ==
    /\ auth.loading
    /\ LET r == loadUser(localStorage, now)
       IN  /\ auth' = r.auth
           /\ localStorage' = r.ls
    /\ last' = Ran("loadUser", NoData, NoError, Void)
    /\ pre' = Snapshot
    /\ hist' = Push(hist, "loadUser")
    /\ UNCHANGED <<now, inflight, viewVars>>

Tick ==
    /\ now <= MaxTime * MsPerSec
    /\ now' = now + MsPerSec \div 2
    /\ UNCHANGED <<auth, localStorage, inflight, last, pre, hist, viewVars>>

\* The page is loaded again: AuthProvider is constructed anew over the storage
\* the last page left, and the old page's requests are gone with it.
Mount ==
    /\ ~auth.loading
    /\ auth' = InitialAuth(localStorage)
    /\ inflight' = [login |-> 0, register |-> 0]
    /\ last' = Ran("mount", NoData, NoError, Void)
    /\ pre' = Snapshot
    /\ hist' = Push(hist, "mount")
    /\ UNCHANGED <<localStorage, now, viewVars>>

\* login up to its await: the request is sent.
LoginSubmit ==
    /\ ~auth.loading
    /\ inflight.login < MaxPending
    /\ inflight' = [inflight EXCEPT !.login = @ + 1]
    /\ last' = Ran("loginSubmit", NoData, NoError, Void)
    /\ pre' = Snapshot
    /\ hist' = Push(hist, "loginSubmit")
    /\ UNCHANGED <<auth, localStorage, now, viewVars>>

\* A request settles and its handler runs on from the await.
Settle(kind, op, data, error, r) ==
    /\ auth' = r.auth
    /\ localStorage' = r.ls
    /\ inflight' = [inflight EXCEPT ![kind] = @ - 1]
    /\ last' = Ran(op, data, error, r.ret)
    /\ pre' = Snapshot
    /\ hist' = Push(hist, op)
    /\ UNCHANGED <<now, viewVars>>

\* The login request is answered 200.
LoginResolve ==
    /\ inflight.login > 0
    /\ \E data \in LoginData :
          Settle("login", "loginResolved", data, NoError,
                 login(auth, localStorage, [ok |-> TRUE, data |-> data]))

\* The login request fails.
LoginReject ==
    /\ inflight.login > 0
    /\ \E error \in Errors :
          Settle("login", "loginRejected", NoData, error,
                 login(auth, localStorage, [ok |-> FALSE, error |-> error]))

\* register up to its await.
RegisterSubmit ==
    /\ ~auth.loading
    /\ inflight.register < MaxPending
    /\ inflight' = [inflight EXCEPT !.register = @ + 1]
    /\ last' = Ran("registerSubmit", NoData, NoError, Void)
    /\ pre' = Snapshot
    /\ hist' = Push(hist, "registerSubmit")
    /\ UNCHANGED <<auth, localStorage, now, viewVars>>

RegisterResolve ==
    /\ inflight.register > 0
    /\ \E data \in RegisterData :
          Settle("register", "registerResolved", data, NoError,
                 register(auth, localStorage, [ok |-> TRUE, data |-> data]))

RegisterReject ==
    /\ inflight.register > 0
    /\ \E error \in Errors :
          Settle("register", "registerRejected", NoData, error,
                 register(auth, localStorage, [ok |-> FALSE, error |-> error]))

Logout ==
    /\ ~auth.loading
    /\ LET r == logout(auth, localStorage)
       IN  /\ auth' = r.auth
           /\ localStorage' = r.ls
           /\ last' = Ran("logout", NoData, NoError, r.ret)
    /\ pre' = Snapshot
    /\ hist' = Push(hist, "logout")
    /\ UNCHANGED <<now, inflight, viewVars>>

Next ==
    \/ LoadUser
    \/ Mount
    \/ LoginSubmit
    \/ LoginResolve
    \/ LoginReject
    \/ RegisterSubmit
    \/ RegisterResolve
    \/ RegisterReject
    \/ Logout
    \/ Tick

Spec == Init /\ [][Next]_vars

\* ------------------------------------------------------- hydration (loadUser)

\* Readings of a persisted token, as the specification words them.
Absent(token) == token = NULL
Decodable(token) == token # NULL /\ token[1] = "jwt"
FailsToDecode(token) == token # NULL /\ token[1] # "jwt"
\* The token embeds an expiry at or before the time nowMs.
ExpiredAt(token, nowMs) ==
    Decodable(token) /\ Len(token) = 3 /\ token[3] * MsPerSec <= nowMs
\* The token embeds no expiry, or one after the time nowMs.
UnexpiredAt(token, nowMs) ==
    Decodable(token) /\ (Len(token) = 3 => token[3] * MsPerSec > nowMs)

Hydrated == last.op = "loadUser"

\* C1: hydration of a persisted token whose exp is at or before the current
\* time (exp = now included) ends unauthenticated, with no token in the
\* session, not loading, and the token key removed from storage.
C1_ExpiredTokenIsPurged ==
    (Hydrated /\ ExpiredAt(pre.localStorage.token, pre.now)) =>
        /\ auth.isAuthenticated = FALSE
        /\ auth.token = NULL
        /\ auth.loading = FALSE
        /\ localStorage.token = NULL

\* C2: hydration of an invalid token (one that fails to decode, or an expired
\* one) leaves neither the token nor the username in storage, and the session
\* unauthenticated.
C2_InvalidTokenPurgesBothKeys ==
    (Hydrated /\ (\/ FailsToDecode(pre.localStorage.token)
                  \/ ExpiredAt(pre.localStorage.token, pre.now))) =>
        /\ localStorage.token = NULL
        /\ localStorage.username = null
        /\ auth.isAuthenticated = FALSE

\* C3: hydration of an expired token ends in the session and the storage that
\* hydration of a token that fails to decode ends in, from the same storage
\* otherwise.
C3_DecodeFailureAsExpiry ==
    (Hydrated /\ ExpiredAt(pre.localStorage.token, pre.now)) =>
        \A bad \in Malformed :
            LET other == loadUser([pre.localStorage EXCEPT !.token = bad], pre.now)
            IN  auth = other.auth /\ localStorage = other.ls

\* C4: hydration with no persisted token gives the unauthenticated session and
\* leaves storage as it was; hydration with a decodable, unexpired token gives
\* the authenticated session of the decoded subject, the persisted username and
\* the persisted token, and leaves storage as it was; hydration sends no
\* request to the backend.
C4_HydrationResult ==
    Hydrated =>
        /\ Absent(pre.localStorage.token) =>
              /\ auth = [loading |-> FALSE, isAuthenticated |-> FALSE,
                         user |-> NULL, token |-> NULL]
              /\ localStorage = pre.localStorage
        /\ UnexpiredAt(pre.localStorage.token, pre.now) =>
              /\ auth = [loading |-> FALSE, isAuthenticated |-> TRUE,
                         user |-> <<pre.localStorage.token[2],
                                    pre.localStorage.username>>,
                         token |-> pre.localStorage.token]
              /\ localStorage = pre.localStorage
        /\ inflight = pre.inflight

\* A token with an expiry still ahead was hydrated into an authenticated
\* session, some time after the clock started.
C4_Witness ==
    /\ Hydrated
    /\ pre.now > 0
    /\ UnexpiredAt(pre.localStorage.token, pre.now)
    /\ Len(pre.localStorage.token) = 3
    /\ pre.localStorage.username # null
    /\ auth.isAuthenticated

\* C5: logout followed by a restart of the application (a fresh AuthProvider
\* and its hydration) yields an unauthenticated session.
C5_LogoutThenHydrate ==
    hist = <<"logout", "mount", "loadUser">> => auth.isAuthenticated = FALSE

C5_Witness ==
    /\ hist = <<"logout", "mount", "loadUser">>
    /\ auth = Unauthenticated
    /\ now > 0

\* ------------------------------------------------- login, register, logout

\* C6: a login answered 200 with {access_token, user_id, username} persists
\* the token and the username, sets the session authenticated as that user
\* with that token and not loading, and returns {success: true}.
C6_LoginSuccess ==
    last.op = "loginResolved" =>
        /\ localStorage.token = last.data.access_token
        /\ localStorage.username = last.data.username
        /\ auth = [loading |-> FALSE, isAuthenticated |-> TRUE,
                   user |-> <<last.data.user_id, last.data.username>>,
                   token |-> last.data.access_token]
        /\ last.ret.returned /\ last.ret.success /\ ~last.ret.threw

\* alice logs in from an unauthenticated session over another user's leftovers.
C6_Witness ==
    /\ last.op = "loginResolved"
    /\ last.data.user_id = 1
    /\ last.data.username = "alice"
    /\ pre.auth.isAuthenticated = FALSE
    /\ pre.localStorage.username = "bob"
    /\ auth.isAuthenticated

\* The message an error response supplies, if it supplies a non-empty one.
ServerSupplied(error) == error.hasResponse /\ error.message \notin {undefined, ""}

\* C7: a login whose request fails returns {success: false, message}, the
\* message being the server's when it supplies one and "Authentication failed"
\* otherwise; it does not throw; the session and both persisted keys are as
\* they were before, across the sending of the request and its failure.
C7_LoginFailure ==
    /\ last.op = "loginRejected" =>
          /\ last.ret.returned /\ ~last.ret.threw /\ ~last.ret.success
          /\ ServerSupplied(last.error) => last.ret.message = last.error.message
          /\ ~ServerSupplied(last.error) => last.ret.message = "Authentication failed"
          /\ auth = pre.auth
          /\ localStorage = pre.localStorage
    /\ last.op = "loginSubmit" =>
          /\ auth = pre.auth
          /\ localStorage = pre.localStorage

\* A login fails on the network while another user's session is up.
C7_Witness ==
    /\ last.op = "loginRejected"
    /\ ~last.error.hasResponse
    /\ auth.isAuthenticated
    /\ localStorage.token # NULL
    /\ last.ret.message = "Authentication failed"

\* C8: register leaves the session and both persisted keys as they were, when
\* it sends its request, when the request succeeds and when it fails; a
\* successful registration does not authenticate.
C8_RegisterFrame ==
    last.op \in {"registerSubmit", "registerResolved", "registerRejected"} =>
        /\ auth = pre.auth
        /\ localStorage = pre.localStorage
        /\ (~pre.auth.isAuthenticated => ~auth.isAuthenticated)

\* A registration succeeded in a session that nobody is logged in to.
C8_Witness ==
    /\ last.op = "registerResolved"
    /\ last.ret.success
    /\ ~auth.isAuthenticated
    /\ localStorage.token = NULL

\* C9: logout can run in every session state, logged in or not; it leaves the
\* session unauthenticated with no user and no token and both persisted keys
\* absent, and a second logout right after the first changes nothing.
C9_LogoutIdempotent ==
    /\ ~auth.loading => ENABLED Logout
    /\ last.op = "logout" =>
          /\ ~last.ret.threw
          /\ auth = [loading |-> FALSE, isAuthenticated |-> FALSE,
                     user |-> NULL, token |-> NULL]
          /\ localStorage = [token |-> NULL, username |-> null]
    /\ (Len(hist) >= 2 /\ hist[Len(hist)] = "logout" /\ hist[Len(hist) - 1] = "logout") =>
          /\ auth = pre.auth
          /\ localStorage = pre.localStorage

\* Two logouts in a row, the first one from a logged-in session.
C9_Witness ==
    /\ hist = <<"loginResolved", "logout", "logout">>
    /\ pre.auth.isAuthenticated = FALSE
    /\ pre.localStorage.token = NULL

\* C10: in every reachable state, an authenticated session holds a token.
C10_AuthenticatedHasToken ==
    auth.isAuthenticated => auth.token # NULL

\* A session that stays authenticated through a failed login of someone else.
C10_Witness ==
    /\ auth.isAuthenticated
    /\ auth.token # NULL
    /\ hist = <<"loadUser", "loginSubmit", "loginRejected">>

\* ------------------------------------------------------ expiry and storage

\* The token embeds an expiry that lies before the time nowMs.
ExpiryPassed(token, nowMs) ==
    Decodable(token) /\ Len(token) = 3 /\ token[3] * MsPerSec < nowMs

\* C22: a hydrated session whose token's expiry has passed is not
\* authenticated and its token is no longer persisted.
C22_ExpiryForcesLogout ==
    (~auth.loading /\ auth.token # NULL /\ ExpiryPassed(auth.token, now))
        => ~auth.isAuthenticated /\ localStorage.token = NULL

\* C27: once hydration has completed, a token is persisted if and only if
\* the session is authenticated, and the persisted token is the session's.
C27_StorageMirrorsSession ==
    ~auth.loading
        => /\ (localStorage.token # NULL) <=> auth.isAuthenticated
           /\ localStorage.token = auth.token

\* A login has succeeded in a hydrated session that a logout had ended: the
\* session is authenticated and its token persisted.
C27_Witness ==
    /\ ~auth.loading
    /\ auth.isAuthenticated
    /\ localStorage.token = auth.token
    /\ hist = <<"logout", "loginSubmit", "loginResolved">>

\* ------------------------------------------------------------- route guard

\* C16: a session starts loading and leaves loading exactly once, when
\* hydration completes (hydration runs from a loading session only and ends
\* it); no login (sent, answered or failed), register or logout runs in or
\* ends in loading.
C16_LoadingLeftOnce ==
    /\ last.op = "mount" => auth.loading
    /\ last.op = "loadUser" => pre.auth.loading /\ ~auth.loading
    /\ last.op \notin {"mount", "loadUser"} => ~pre.auth.loading /\ ~auth.loading

\* A failed login, a registration and a logout after hydration.
C16_Witness ==
    /\ hist = <<"loginRejected", "registerResolved", "logout">>
    /\ ~auth.loading
    /\ ~pre.auth.loading

\* The views the route table puts behind the guard.
ProtectedContent == {Element(path) : path \in ProtectedPaths}

\* C17: at every path, a protected view is rendered only when the session is
\* not loading and is authenticated; at a protected path a loading session
\* gets the spinner and an unauthenticated one the redirect to /login; right
\* after a logout no path renders a protected view.
C17_GuardedContent ==
    \A path \in Paths :
        /\ App(path, auth) \in ProtectedContent =>
              ~auth.loading /\ auth.isAuthenticated
        /\ (path \in ProtectedPaths /\ auth.loading) => App(path, auth) = Spinner
        /\ (path \in ProtectedPaths /\ ~auth.loading /\ ~auth.isAuthenticated) =>
              App(path, auth) = NavigateToLogin
        /\ last.op = "logout" => App(path, auth) \notin ProtectedContent

\* A logout takes the Companies view away from a logged-in user.
C17_Witness ==
    /\ last.op = "logout"
    /\ App("/companies", pre.auth) = "Companies"
    /\ App("/companies", auth) = NavigateToLogin

\* ------------------------------------------------- default request header
\* The session store together with its header effect and a protected view
\* (Companies) that writes through the axios default instance.  An effect runs
\* some time after the commit that changed its dependency; a user's click is
\* handled only after the pending effects have run, the continuation of a
\* settled request whenever the response arrives.

\* The header effect has yet to run for the session's token.
EffectPending == ~headerDeps.ran \/ headerDeps.token # auth.token

HeaderInit ==
    /\ localStorage \in [token : Tokens \cup {NULL}, username : Usernames \cup {null}]
    /\ auth = InitialAuth(localStorage)
    /\ now \in {0, MaxTime * MsPerSec + MsPerSec \div 2}
    /\ inflight = [login |-> 0, register |-> 0]
    /\ last = Ran("mount", NoData, NoError, Void)
    /\ pre = [auth |-> auth, localStorage |-> localStorage,
              inflight |-> inflight, now |-> now]
    /\ hist = <<"mount">>
    /\ HeaderIdle
    /\ PagesIdle

\* The effects of the first commit, in the order AuthProvider declares them:
\* loadUser, then the header effect with the token of the first render.
MountEffects ==
    /\ auth.loading
    /\ LET r == loadUser(localStorage, now)
       IN  /\ auth' = r.auth
           /\ localStorage' = r.ls
    /\ axios' = headerEffect(axios, auth.token)
    /\ headerDeps' = [ran |-> TRUE, token |-> auth.token]
    /\ UNCHANGED <<now, inflight, last, pre, hist, writes, pageVars>>

\* The header effect of a later commit, whose auth.token differs from the one
\* the effect last ran for.
HeaderEffect ==
    /\ ~auth.loading
    /\ EffectPending
    /\ axios' = headerEffect(axios, auth.token)
    /\ headerDeps' = [ran |-> TRUE, token |-> auth.token]
    /\ UNCHANGED <<sessionVars, writes, pageVars>>

\* The Login form is submitted: login up to its await.
LoginSent ==
    /\ ~auth.loading /\ ~EffectPending
    /\ ~auth.isAuthenticated
    /\ inflight.login < MaxPending
    /\ inflight' = [inflight EXCEPT !.login = @ + 1]
    /\ UNCHANGED <<auth, localStorage, now, last, pre, hist, headerVars, pageVars>>

\* The login request settles and login runs on from its await.
LoginSettled ==
    /\ inflight.login > 0
    /\ \E settled \in {[ok |-> TRUE, data |-> d, error |-> NoError] : d \in LoginData}
                      \cup {[ok |-> FALSE, data |-> NoData, error |-> e] : e \in Errors} :
          LET r == login(auth, localStorage, settled)
          IN  /\ auth' = r.auth
              /\ localStorage' = r.ls
    /\ inflight' = [inflight EXCEPT !.login = @ - 1]
    /\ UNCHANGED <<now, last, pre, hist, headerVars, pageVars>>

\* Navigation's Logout button, shown to an authenticated user.
LogoutClicked ==
    /\ ~auth.loading /\ ~EffectPending
    /\ auth.isAuthenticated
    /\ LET r == logout(auth, localStorage)
       IN  /\ auth' = r.auth
           /\ localStorage' = r.ls
    /\ UNCHANGED <<now, inflight, last, pre, hist, headerVars, pageVars>>

\* Companies.handleAdd up to its await: createCompany posts.
AddCompanySent ==
    /\ ~EffectPending
    /\ App("/companies", auth) = "Companies"
    /\ writes.pending < MaxPending
    /\ writes' = [pending |-> writes.pending + 1,
                  issued |-> axios_request(axios, auth)]
    /\ UNCHANGED <<sessionVars, axios, headerDeps, pageVars>>

\* createCompany settles; on success handleAdd goes on to fetchCompanies,
\* which gets the list through the axios default instance.
AddCompanySettled ==
    /\ writes.pending > 0
    /\ \E success \in BOOLEAN :
          writes' = [pending |-> writes.pending - 1,
                     issued |-> IF success THEN axios_request(axios, auth)
                                ELSE writes.issued]
    /\ UNCHANGED <<sessionVars, axios, headerDeps, pageVars>>

HeaderNext ==
    \/ MountEffects
    \/ HeaderEffect
    \/ LoginSent
    \/ LoginSettled
    \/ LogoutClicked
    \/ AddCompanySent
    \/ AddCompanySettled

HeaderSpec == HeaderInit /\ [][HeaderNext]_vars

\* The default header that goes with a session token.
HeaderOf(token) == IF token = NULL THEN NULL ELSE Bearer(token)

\* C11: every request sent through the axios default instance carries the
\* Authorization header of the session token current when it is sent: Bearer
\* of that token when there is one, none when there is none.
C11_RequestCarriesSessionToken ==
    writes.issued.any => writes.issued.Authorization = HeaderOf(writes.issued.token)

\* ---------------------------------------------------------------- Steps
\* The Steps page of a logged-in user, from its mount: the user opens and
\* closes the modals, fills in the form from what the selects offer, and
\* submits; the backend answers each request with a success or a failure.

\* Everything but the spinner is rendered.
StepsShown == stepsPage # NotMounted /\ ~(stepsPage.loading /\ stepsPage.steps = {})
NoModal ==
    ~stepsPage.showAddModal /\ ~stepsPage.showEditModal /\ ~stepsPage.showDeleteModal

\* The step a user opens a modal for: the newest of the table.
Picked(steps) ==
    {step \in steps : \A other \in steps : step.id >= other.id}

\* The <option>s of the step select of the modal that is open, and the one a
\* user picks among them: the first.
StepOptions ==
    getAvailableStepNumbers(stepsPage.steps, stepsPage.formData.product_id,
        IF stepsPage.showEditModal THEN stepsPage.currentStep.id ELSE NoId)
PickedOptions ==
    IF StepOptions = <<>> THEN {} ELSE {StepOptions[1]}

\* A response of the backend: {success: true, data} or {success: false, error}.
Response(success, data) ==
    [success |-> success, data |-> data,
     error |-> IF success THEN "" ELSE "Request failed"]

StepsInit ==
    /\ SessionIdle
    /\ HeaderIdle
    /\ ImageIdle
    /\ CrudIdle
    /\ CreatorIdle
    /\ GatewayIdle
    /\ stepsPage = StepsInitial
    /\ stepsBackend \in
          [rows : StepLists, pending : {[stage |-> "fetch", call |-> NoCall]},
           writes : {0}]

\* fetchData's gets settle; the handler that awaited fetchData finishes.
StepsFetched ==
    /\ stepsBackend.pending.stage = "fetch"
    /\ \E stepsOk \in BOOLEAN, productsOk \in BOOLEAN :
          stepsPage' = stepsFetched(stepsPage, stepsBackend.pending.call.op,
                                    Response(stepsOk, stepsBackend.rows),
                                    Response(productsOk, ProductIds))
    /\ stepsBackend' = [stepsBackend EXCEPT !.pending = [stage |-> "none", call |-> NoCall]]
    /\ UNCHANGED <<sessionVars, headerVars, imageVars, crudVars, creatorVars, gatewayVars>>

AddShow ==
    /\ StepsShown /\ NoModal
    /\ stepsPage' = handleAddShow(stepsPage)
    /\ UNCHANGED <<sessionVars, headerVars, imageVars, crudVars, creatorVars, gatewayVars, stepsBackend>>

EditShow ==
    /\ StepsShown /\ NoModal
    /\ \E step \in Picked(stepsPage.steps) : stepsPage' = handleEditShow(stepsPage, step)
    /\ UNCHANGED <<sessionVars, headerVars, imageVars, crudVars, creatorVars, gatewayVars, stepsBackend>>

DeleteShow ==
    /\ StepsShown /\ NoModal
    /\ \E step \in Picked(stepsPage.steps) : stepsPage' = handleDeleteShow(stepsPage, step)
    /\ UNCHANGED <<sessionVars, headerVars, imageVars, crudVars, creatorVars, gatewayVars, stepsBackend>>

Close ==
    /\ StepsShown /\ ~NoModal
    /\ stepsPage' = handleClose(stepsPage)
    /\ UNCHANGED <<sessionVars, headerVars, imageVars, crudVars, creatorVars, gatewayVars, stepsBackend>>

\* The user edits a field of the Add or the Edit modal; the step select is
\* disabled while no product is chosen.
Change ==
    /\ StepsShown
    /\ stepsPage.showAddModal \/ stepsPage.showEditModal
    /\ \/ \E value \in Names : stepsPage' = handleChange(stepsPage, "name", value)
       \/ \E value \in {EmptyString} \cup {Str(id) : id \in ProductIds} :
             stepsPage' = handleChange(stepsPage, "product_id", value)
       \/ /\ ~Not(stepsPage.formData.product_id)
          /\ \E value \in {EmptyString} \cup {Str(n) : n \in PickedOptions} :
                stepsPage' = handleChange(stepsPage, "step_number", value)
    /\ UNCHANGED <<sessionVars, headerVars, imageVars, crudVars, creatorVars, gatewayVars, stepsBackend>>

\* A handler ran up to its await: the page it left and the call it made.
Submitted(r) ==
    /\ stepsPage' = r.page
    /\ IF r.call = NoCall THEN UNCHANGED stepsBackend
       ELSE /\ stepsBackend.writes < MaxWrites
            /\ stepsBackend' =
                  [stepsBackend EXCEPT
                      !.pending = [stage |-> "write", call |-> r.call],
                      !.writes = @ + 1]
    /\ UNCHANGED <<sessionVars, headerVars, imageVars, crudVars, creatorVars, gatewayVars>>

\* The Add modal's button is disabled: loading, or a product is chosen and
\* none of its numbers is left.
AddDisabled ==
    \/ stepsPage.loading
    \/ /\ ~Not(stepsPage.formData.product_id)
       /\ Len(getAvailableStepNumbers(stepsPage.steps, stepsPage.formData.product_id,
                                      NoId)) = 0

Add ==
    /\ StepsShown /\ stepsPage.showAddModal
    /\ ~AddDisabled
    /\ Submitted(handleAdd(stepsPage))

Edit ==
    /\ StepsShown /\ stepsPage.showEditModal
    /\ ~stepsPage.loading
    /\ Submitted(handleEdit(stepsPage))

Delete ==
    /\ StepsShown /\ stepsPage.showDeleteModal
    /\ ~stepsPage.loading
    /\ Submitted(handleDelete(stepsPage))

\* The write settles: the backend has carried it out, or refused it; it
\* refuses a write that would give two steps of a product the same number.
StepWriteSettled ==
    /\ stepsBackend.pending.stage = "write"
    /\ \E success \in {FALSE} \cup
              {UniqueStepNumbers(ApplyStepWrite(stepsBackend.rows,
                                                stepsBackend.pending.call))} :
          LET call == stepsBackend.pending.call
          IN  /\ stepsPage' = stepWriteSettled(stepsPage, call.op, Response(success, {}))
              /\ stepsBackend' =
                    [stepsBackend EXCEPT
                        !.rows = IF success THEN ApplyStepWrite(@, call) ELSE @,
                        !.pending = IF success THEN [stage |-> "fetch", call |-> call]
                                    ELSE [stage |-> "none", call |-> NoCall]]
    /\ UNCHANGED <<sessionVars, headerVars, imageVars, crudVars, creatorVars, gatewayVars>>

StepsNext ==
    \/ StepsFetched
    \/ AddShow
    \/ EditShow
    \/ DeleteShow
    \/ Close
    \/ Change
    \/ Add
    \/ Edit
    \/ Delete
    \/ StepWriteSettled

StepsSpec == StepsInit /\ [][StepsNext]_vars

\* The step numbers of 1..20 that no step of the product other than the step
\* excluded holds, in the list steps.
AvailableSet(steps, productId, excludeStepId) ==
    {n \in 1..MaxStepNumber :
        \A step \in steps :
            (step.product_id = productId /\ step.id # excludeStepId) =>
                step.step_number # n}

\* The product and the step number of the form, as numbers (0 when not one).
FormNumber(value) == IF parseInt(value)[1] = "number" THEN parseInt(value)[2] ELSE 0

\* C15: while all 20 numbers of the form's product are taken by other steps,
\* the Add modal's button is disabled and handleEdit makes no call; and every
\* createStep or updateStep on its way to the backend carries a step_number
\* that is available for its product in the steps held when it was sent (the
\* steps held do not change while a write is pending).
C15_StepNumberIsAvailable ==
    /\ (/\ stepsPage.showAddModal
        /\ FormNumber(stepsPage.formData.product_id) \in ProductIds
        /\ AvailableSet(stepsPage.steps, FormNumber(stepsPage.formData.product_id),
                        NoId) = {}) => AddDisabled
    /\ (/\ stepsPage.showEditModal
        /\ FormNumber(stepsPage.formData.product_id) \in ProductIds
        /\ AvailableSet(stepsPage.steps, FormNumber(stepsPage.formData.product_id),
                        stepsPage.currentStep.id) = {}) =>
           handleEdit(stepsPage).call = NoCall
    /\ (/\ stepsBackend.pending.stage = "write"
        /\ stepsBackend.pending.call.op \in {"createStep", "updateStep"}) =>
           LET call == stepsBackend.pending.call
           IN  FormNumber(call.data.step_number) \in
                   AvailableSet(stepsPage.steps, FormNumber(call.data.product_id), call.id)

\* ------------------------------------------------- the step numbers offered
\* The Steps page over a list that stays as fetched: the user opens the modals
\* and fills in the form, and the step select renders what
\* getAvailableStepNumbers returns.

\* The numbers one product's steps hold: none, 1 3 5, all but 20, all.
NumberSets ==
    {{}, {1, 3, 5}, 1..(MaxStepNumber - 1), 1..MaxStepNumber}

\* The lists in which every product's steps hold one of these sets.
OfferLists ==
    {UNION {{Row((p - 1) * MaxStepNumber + n, p, n) : n \in held[p]} : p \in ProductIds} :
        held \in [ProductIds -> NumberSets]}

OfferInit ==
    /\ SessionIdle
    /\ HeaderIdle
    /\ ImageIdle
    /\ CrudIdle
    /\ CreatorIdle
    /\ GatewayIdle
    /\ \E steps \in OfferLists :
          /\ stepsPage = [StepsInitial EXCEPT !.steps = steps, !.loading = FALSE]
          /\ stepsBackend = [rows |-> steps, pending |-> [stage |-> "none", call |-> NoCall],
                             writes |-> 0]

OfferNext ==
    \/ AddShow
    \/ EditShow
    \/ Close
    \/ Change

OfferSpec == OfferInit /\ [][OfferNext]_vars

\* What a caller may pass for productId: nothing chosen ('' or NaN), or a
\* product's id as a number or as the text of an <option>.
ProductInputs ==
    {EmptyString, NaN} \cup {Num(p) : p \in ProductIds} \cup {Str(p) : p \in ProductIds}

\* What a caller may pass for excludeStepId: nothing, the step being edited,
\* or a step of the list that holds 1, 3 or 20.
ExcludeInputs ==
    {NoId, stepsPage.currentStep.id} \cup
    {step.id : step \in {st \in stepsPage.steps : st.step_number \in {1, 3, MaxStepNumber}}}

\* C14: for every productId and every excludeStepId (none, or a step of the
\* list), getAvailableStepNumbers returns, in increasing order and once each,
\* exactly the numbers of 1..20 that no other step of that product holds, the
\* excluded step not counting; with no product chosen it returns nothing; and
\* the step select of the open modal offers exactly that, for the form's
\* product and, in the Edit modal, excluding the step being edited.
C14_OfferedStepNumbers ==
    /\ \A productId \in ProductInputs, excludeStepId \in ExcludeInputs :
          LET offered == getAvailableStepNumbers(stepsPage.steps, productId, excludeStepId)
          IN  /\ {offered[i] : i \in 1..Len(offered)} =
                    IF productId \in {EmptyString, NaN} THEN {}
                    ELSE AvailableSet(stepsPage.steps, productId[2], excludeStepId)
              /\ \A i \in 1..(Len(offered) - 1) : offered[i] < offered[i + 1]
    /\ {StepOptions[i] : i \in 1..Len(StepOptions)} =
          IF FormNumber(stepsPage.formData.product_id) \notin ProductIds THEN {}
          ELSE AvailableSet(stepsPage.steps, FormNumber(stepsPage.formData.product_id),
                            IF stepsPage.showEditModal THEN stepsPage.currentStep.id
                            ELSE NoId)

\* The Edit modal of a step of a product whose steps are at 1, 3 and 5: the
\* step's own number is offered with the 17 free ones; for a new step of that
\* product exactly 1..20 less 1, 3 and 5 would be.
C14_Witness ==
    /\ stepsPage.showEditModal
    /\ stepsPage.formData.product_id = Num(stepsPage.currentStep.product_id)
    /\ {step.step_number : step \in {st \in stepsPage.steps :
            st.product_id = stepsPage.currentStep.product_id}} = {1, 3, 5}
    /\ Len(StepOptions) = MaxStepNumber - 2
    /\ \E i \in 1..Len(StepOptions) : StepOptions[i] = stepsPage.currentStep.step_number
    /\ {n \in 1..MaxStepNumber :
          \E i \in 1..MaxStepNumber - 3 :
             getAvailableStepNumbers(stepsPage.steps, stepsPage.formData.product_id,
                                     NoId)[i] = n}
          = (1..MaxStepNumber) \ {1, 3, 5}


\* ---------------------------------------------------------------- CrudSpec
\* One CRUD view (Companies, Products or ClassCounts) from its mount on, with
\* one user and a backend nobody else writes to.

\* The table is rendered: the spinner replaces it while the first fetch runs.
CrudShown == crud # NotMounted /\ ~(crud.loading /\ crud.items = {})
CrudNoModal == ~crud.showAddModal /\ ~crud.showEditModal /\ ~crud.showDeleteModal

CrudInit ==
    /\ SessionIdle
    /\ HeaderIdle
    /\ ImageIdle
    /\ StepsIdle
    /\ CreatorIdle
    /\ GatewayIdle
    /\ \E entity \in Entities : crud = CrudInitial(entity)
    /\ \E rows \in CrudLists(crud.entity) :
          crudBackend = [rows |-> rows,
                         pending |-> [stage |-> "fetch",
                                      call |-> [NoWrite EXCEPT !.op = "mount"]],
                         writes |-> 0, last |-> CrudRan("mount", "sent", FALSE, {})]

\* The gets of the fetch settle, and the handler that awaited it finishes.
CrudFetched ==
    /\ crudBackend.pending.stage = "fetch"
    /\ \E ok \in BOOLEAN, parentsOk \in {TRUE} \cup {~HasParent(crud.entity)} \cup BOOLEAN :
          /\ HasParent(crud.entity) \/ parentsOk
          /\ crud' = crud_fetched(crud, crudBackend.pending.call,
                                  Response(ok, IF ok THEN crudBackend.rows ELSE {}),
                                  Response(parentsOk, {}))
          /\ crudBackend' =
                [crudBackend EXCEPT
                    !.pending = [stage |-> "none", call |-> NoWrite],
                    !.last = CrudRan(crudBackend.pending.call.op, "finished", ok,
                                     crud.items)]
    /\ UNCHANGED <<sessionVars, headerVars, imageVars, stepsVars, creatorVars, gatewayVars>>

CrudAddShow ==
    /\ CrudShown /\ CrudNoModal
    /\ crud' = crud_handleAddShow(crud)
    /\ UNCHANGED <<sessionVars, headerVars, imageVars, stepsVars, creatorVars, gatewayVars, crudBackend>>

CrudEditShow ==
    /\ CrudShown /\ CrudNoModal
    /\ \E item \in Picked(crud.items) : crud' = crud_handleEditShow(crud, item)
    /\ UNCHANGED <<sessionVars, headerVars, imageVars, stepsVars, creatorVars, gatewayVars, crudBackend>>

CrudDeleteShow ==
    /\ CrudShown /\ CrudNoModal
    /\ \E item \in Picked(crud.items) : crud' = crud_handleDeleteShow(crud, item)
    /\ UNCHANGED <<sessionVars, headerVars, imageVars, stepsVars, creatorVars, gatewayVars, crudBackend>>

CrudClose ==
    /\ CrudShown /\ ~CrudNoModal
    /\ crud' = crud_handleClose(crud)
    /\ UNCHANGED <<sessionVars, headerVars, imageVars, stepsVars, creatorVars, gatewayVars, crudBackend>>

\* The user edits a field of the Add or the Edit modal.
CrudChange ==
    /\ CrudShown
    /\ crud.showAddModal \/ crud.showEditModal
    /\ \/ \E value \in Names : crud' = crud_handleChange(crud, "name", value)
       \/ /\ HasParent(crud.entity)
          /\ \E value \in {EmptyString} \cup {Str(id) : id \in ParentIds} :
                crud' = crud_handleChange(crud, "parent_id", value)
    /\ UNCHANGED <<sessionVars, headerVars, imageVars, stepsVars, creatorVars, gatewayVars, crudBackend>>

\* A handler ran up to its await: the view it left and the call it made.
CrudSubmitted(handler, r) ==
    /\ crud' = r.view
    /\ IF r.call = NoWrite
       THEN crudBackend' =
                [crudBackend EXCEPT !.last = CrudRan(handler, "refused", FALSE, crud.items)]
       ELSE /\ crudBackend.writes < MaxCrudWrites
            /\ crudBackend' =
                  [crudBackend EXCEPT
                      !.pending = [stage |-> "write", call |-> r.call],
                      !.writes = @ + 1,
                      !.last = CrudRan(handler, "sent", FALSE, crud.items)]
    /\ UNCHANGED <<sessionVars, headerVars, imageVars, stepsVars, creatorVars, gatewayVars>>

\* The buttons of the modals are disabled while loading.
CrudAdd ==
    /\ CrudShown /\ crud.showAddModal
    /\ ~crud.loading
    /\ CrudSubmitted("handleAdd", crud_handleAdd(crud))

CrudEdit ==
    /\ CrudShown /\ crud.showEditModal
    /\ ~crud.loading
    /\ CrudSubmitted("handleEdit", crud_handleEdit(crud))

CrudDelete ==
    /\ CrudShown /\ crud.showDeleteModal
    /\ ~crud.loading
    /\ CrudSubmitted("handleDelete", crud_handleDelete(crud))

\* The write settles: the backend has carried it out, or refused it.
CrudWriteSettled ==
    /\ crudBackend.pending.stage = "write"
    /\ \E success \in BOOLEAN :
          LET call == crudBackend.pending.call
          IN  /\ crud' = crud_writeSettled(crud, call.op, Response(success, {}))
              /\ crudBackend' =
                    [crudBackend EXCEPT
                        !.rows = IF success THEN ApplyWrite(@, call) ELSE @,
                        !.pending =
                            IF crud_afterWrite(Response(success, {})) = "fetch"
                            THEN [stage |-> "fetch", call |-> call]
                            ELSE [stage |-> "none", call |-> NoWrite],
                        !.last = CrudRan(call.op, IF success THEN "written" ELSE "failed",
                                         FALSE, crud.items)]
    /\ UNCHANGED <<sessionVars, headerVars, imageVars, stepsVars, creatorVars, gatewayVars>>

CrudNext ==
    \/ CrudFetched
    \/ CrudAddShow
    \/ CrudEditShow
    \/ CrudDeleteShow
    \/ CrudClose
    \/ CrudChange
    \/ CrudAdd
    \/ CrudEdit
    \/ CrudDelete
    \/ CrudWriteSettled

CrudSpec == CrudInit /\ [][CrudNext]_vars

\* C24 as stated: when a write of a CRUD view has settled, succeeded or
\* failed, the handler has a fetch of the collection in flight.
C24_EveryWriteRefreshes ==
    crudBackend.last.stage \in {"written", "failed"}
        => crudBackend.pending.stage = "fetch"

\* C24: when a write of a CRUD view has succeeded, its handler has a fetch of
\* the collection in flight; when it has failed, the handler has ended with
\* no fetch, the collection as it was, loading false and the write's error
\* shown.
C24_SuccessfulWriteRefreshes ==
    /\ crudBackend.last.stage = "written"
          => /\ crudBackend.pending = [stage |-> "fetch",
                                       call |-> crudBackend.pending.call]
             /\ crudBackend.pending.call.op = crudBackend.last.op
             /\ crud.loading
    /\ crudBackend.last.stage = "failed"
          => /\ crudBackend.pending = [stage |-> "none", call |-> NoWrite]
             /\ crud.items = crudBackend.last.before
             /\ ~crud.loading
             /\ crud.error = WriteErrorPrefix(crud.entity, crudBackend.last.op)
                                 \o "Request failed"

\* An update of a class was refused by the backend.
C24_Witness ==
    /\ crud.entity = "class"
    /\ crudBackend.last.op = "update"
    /\ crudBackend.last.stage = "failed"
    /\ crud.error = "Error updating class: Request failed"

\* C13: after a successful create, update or delete, once the handler has
\* finished, the collection the view holds is the collection the server
\* lists, whether the refresh that followed the write succeeded or failed.
C13_RefreshAfterWrite ==
    (/\ crudBackend.last.stage = "finished"
     /\ crudBackend.last.op \in {"create", "update", "delete"})
        => crud.items = crudBackend.rows

\* ------------------------------------------------------------- RequiredSpec
\* The forms of the four views: a view that has fetched its collection, a
\* user who fills the Add or the Edit modal in and submits it.  No request
\* settles: the behaviour ends with the first call a handler makes.

RequiredInit ==
    /\ SessionIdle
    /\ HeaderIdle
    /\ ImageIdle
    /\ CreatorIdle
    /\ GatewayIdle
    /\ \/ /\ StepsIdle
          /\ \E entity \in Entities :
             \E rows \in CrudLists(entity) \ {{}} :
                /\ crud = [CrudInitial(entity) EXCEPT !.items = rows, !.loading = FALSE]
                /\ crudBackend =
                      [rows |-> rows, pending |-> [stage |-> "none", call |-> NoWrite],
                       writes |-> 0, last |-> CrudRan("mount", "finished", TRUE, {})]
       \/ /\ CrudIdle
          /\ \E rows \in StepLists :
                /\ stepsPage = [StepsInitial EXCEPT !.steps = rows, !.loading = FALSE]
                /\ stepsBackend = [rows |-> rows,
                                   pending |-> [stage |-> "none", call |-> NoCall],
                                   writes |-> 0]

RequiredNext ==
    \/ CrudAddShow
    \/ CrudEditShow
    \/ CrudClose
    \/ CrudChange
    \/ CrudAdd
    \/ CrudEdit
    \/ AddShow
    \/ EditShow
    \/ Close
    \/ Change
    \/ Add
    \/ Edit

RequiredSpec == RequiredInit /\ [][RequiredNext]_vars

\* The text field of a form is empty or holds nothing but blanks.
Blank(name) == name \in {"", " ", "  "}
\* A select of a form holds no id: nothing was chosen.
NoKey(value) == value \in {EmptyString, NaN}

\* The messages a view may give for a required field that is missing.
RequiredMessages(entity) ==
    CASE entity = "company" -> {"Company name is required"}
      [] entity = "product" -> {"Product name is required", "Company is required"}
      [] entity = "class" -> {"Class is required", "Product is required"}
      [] entity = "step" -> {"Step name is required", "Product is required",
                             "Step number is required"}

\* C12: in each of the four views, handleAdd and handleEdit on a form whose
\* name (class) is empty or blank, whose foreign key is absent or whose step
\* number is absent show one of the view's "... is required" messages and
\* make no call, and leave the collection and the loading flag as they were;
\* a submit that was refused has left no request pending.
C12_RequiredFieldRefused ==
    /\ (/\ crud # NotMounted
        /\ \/ Blank(crud.formData.name)
           \/ HasParent(crud.entity) /\ NoKey(crud.formData.parent_id))
          => \A r \in {crud_handleAdd(crud), crud_handleEdit(crud)} :
                /\ r.call = NoWrite
                /\ r.view.error \in RequiredMessages(crud.entity)
                /\ r.view = [crud EXCEPT !.error = r.view.error]
    /\ (/\ stepsPage # NotMounted
        /\ \/ Blank(stepsPage.formData.name)
           \/ NoKey(stepsPage.formData.product_id)
           \/ NoKey(stepsPage.formData.step_number))
          => \A r \in {handleAdd(stepsPage), handleEdit(stepsPage)} :
                /\ r.call = NoCall
                /\ r.page.error \in RequiredMessages("step")
                /\ r.page = [stepsPage EXCEPT !.error = r.page.error]
    /\ (crud # NotMounted /\ crud.entity = "company" /\ crud.formData.name = "")
          => crud_handleAdd(crud).view.error = "Company name is required"
    /\ (crud # NotMounted /\ crudBackend.last.stage = "refused")
          => /\ crudBackend.pending.stage = "none"
             /\ crudBackend.writes = 0
             /\ crud.items = crudBackend.last.before
             /\ ~crud.loading
             /\ crud.error \in RequiredMessages(crud.entity)

\* A product's Edit was refused for a blank name, with its company chosen.
C12_Witness ==
    /\ crud # NotMounted
    /\ crud.entity = "product"
    /\ crudBackend.last = CrudRan("handleEdit", "refused", FALSE, crud.items)
    /\ crud.formData = [name |-> "  ", parent_id |-> Num(1)]
    /\ crud.error = "Product name is required"

\* -------------------------------------------------------------- CreatorSpec
\* ProjectCreator from its mount to its unmount: the credential check, a user
\* who chooses a product and clicks the create and the import buttons as the
\* DOM allows, a click repeated before the render it asked for has committed,
\* and a backend that answers each request.

CreatorInit ==
    /\ SessionIdle
    /\ HeaderIdle
    /\ ImageIdle
    /\ StepsIdle
    /\ CrudIdle
    /\ GatewayIdle
    /\ creator = CreatorInitial
    /\ creatorBackend = [mounted |-> TRUE, check |-> 1, create |-> 0, import |-> 0,
                         signals |-> [create |-> FALSE, import |-> FALSE],
                         settled |-> {},
                         last |-> CreatorRan("mount", "sent", [create |-> 0, import |-> 0],
                                             FALSE, FALSE, FALSE)]

\* The posts in flight.
Posts == [create |-> creatorBackend.create, import |-> creatorBackend.import]

\* The DOM shows the state: the render the last state change asked for has
\* committed.  React commits it before it dispatches another event, so the
\* user acts on a committed render, save for a click repeated on the spot;
\* a response finds a committed render, or no component.
Committed == creator = commit(creator)
Quiet == ~creatorBackend.mounted \/ Committed

\* The render that the last state changes asked for commits.
Commit ==
    /\ creatorBackend.mounted
    /\ ~Committed
    /\ creator' = commit(creator)
    /\ UNCHANGED <<sessionVars, headerVars, imageVars, stepsVars, crudVars, gatewayVars, creatorBackend>>

\* The get of checkApiKey settles; with a key the effect on hasApiKey calls
\* fetchProducts, whose get settles too.
ApiKeyChecked ==
    /\ creatorBackend.check > 0
    /\ Quiet
    /\ \E outcome \in {"has_key", "no_key", "error"}, fetched \in BOOLEAN :
          /\ outcome = "has_key" \/ fetched
          /\ creator' = IF outcome = "has_key"
                        THEN fetchProducts(checkApiKey(creator, outcome), fetched)
                        ELSE checkApiKey(creator, outcome)
          /\ creatorBackend' =
                [creatorBackend EXCEPT
                    !.check = @ - 1,
                    !.last = CreatorRan("checkApiKey", outcome, Posts, FALSE, FALSE, TRUE)]
    /\ UNCHANGED <<sessionVars, headerVars, imageVars, stepsVars, crudVars, gatewayVars>>

\* The user chooses an <option> of the select, disabled while loading.
SelectProduct ==
    /\ creatorBackend.mounted /\ Committed /\ creator.hasApiKey
    /\ ~creator.rendered.loading
    /\ \E value \in {EmptyString} \cup {Str(id) : id \in ProductIds} :
          /\ value # creator.selectedProduct
          /\ creator' = [creator EXCEPT !.selectedProduct = value]
    /\ UNCHANGED <<sessionVars, headerVars, imageVars, stepsVars, crudVars, gatewayVars, creatorBackend>>

\* A click on the create button, disabled without a product or while loading.
CreateClicked ==
    /\ creatorBackend.mounted /\ creator.hasApiKey
    /\ Committed \/ creatorBackend.last.op = "createProject"
    /\ ~(Not(creator.rendered.selectedProduct) \/ creator.rendered.loading)
    /\ LET r == createProject(creator)
       IN  /\ creator' = r.creator
           /\ creatorBackend' =
                 [creatorBackend EXCEPT
                     !.create = IF r.sent THEN @ + 1 ELSE @,
                     !.signals.create =
                         IF r.sent THEN RequestSignal("createProject", r.creator).set ELSE @,
                     !.last = CreatorRan("createProject", "invoked", Posts,
                                         r.sent, r.aborted, r.creator # creator)]
    /\ UNCHANGED <<sessionVars, headerVars, imageVars, stepsVars, crudVars, gatewayVars>>

\* A click on the import button of a project, disabled while importing.
ImportClicked ==
    /\ creatorBackend.mounted /\ creator.hasApiKey
    /\ Committed \/ creatorBackend.last.op = "importImagesForProject"
    /\ ~creator.rendered.importingImages
    /\ LET r == importImagesForProject(creator)
       IN  /\ creator' = r.creator
           /\ creatorBackend' =
                 [creatorBackend EXCEPT
                     !.import = IF r.sent THEN @ + 1 ELSE @,
                     !.signals.import =
                         IF r.sent THEN RequestSignal("importImagesForProject", r.creator).set
                         ELSE @,
                     !.last = CreatorRan("importImagesForProject", "invoked", Posts,
                                         r.sent, r.aborted, r.creator # creator)]
    /\ UNCHANGED <<sessionVars, headerVars, imageVars, stepsVars, crudVars, gatewayVars>>

\* The component unmounts: the cleanup effect aborts the stored controller.
Unmount ==
    /\ creatorBackend.mounted /\ Committed
    /\ creator' = [creator EXCEPT !.abortControllerRef.aborted = creator.abortControllerRef.set]
    /\ creatorBackend' =
          [creatorBackend EXCEPT
              !.mounted = FALSE,
              !.last = CreatorRan("unmount", "cleanup", Posts, FALSE,
                                  creator.abortControllerRef.set, FALSE)]
    /\ UNCHANGED <<sessionVars, headerVars, imageVars, stepsVars, crudVars, gatewayVars>>

\* The outcomes of a post: answered, refused with or without a message of the
\* server, and cancelled when its signal was aborted.
Outcomes(controller) ==
    {<<"ok", undefined>>, <<"error", undefined>>, <<"error", "Project exists">>}
        \cup (IF controller.aborted THEN {<<"abort", undefined>>} ELSE {})

\* The post of createProject settles, and the refresh it awaits.
CreateSettled ==
    /\ creatorBackend.create > 0
    /\ Quiet
    /\ \E outcome \in Outcomes(creator.abortControllerRef), fetched \in BOOLEAN :
          /\ creator' = createSettled(creator, outcome[1], outcome[2], fetched)
          /\ creatorBackend' =
                [creatorBackend EXCEPT
                    !.create = @ - 1,
                    !.settled = @ \cup {outcome[1]},
                    !.last = CreatorRan("createSettled", outcome[1], Posts,
                                        FALSE, FALSE, TRUE)]
    /\ UNCHANGED <<sessionVars, headerVars, imageVars, stepsVars, crudVars, gatewayVars>>

\* The post of importImagesForProject settles, and the refresh it awaits.
ImportSettled ==
    /\ creatorBackend.import > 0
    /\ Quiet
    /\ \E outcome \in Outcomes(NoController), fetched \in BOOLEAN :
          /\ creator' = importSettled(creator, outcome[1], outcome[2], fetched)
          /\ creatorBackend' =
                [creatorBackend EXCEPT
                    !.import = @ - 1,
                    !.last = CreatorRan("importSettled", outcome[1], Posts,
                                        FALSE, FALSE, TRUE)]
    /\ UNCHANGED <<sessionVars, headerVars, imageVars, stepsVars, crudVars, gatewayVars>>

CreatorNext ==
    \/ Commit
    \/ ApiKeyChecked
    \/ SelectProduct
    \/ CreateClicked
    \/ ImportClicked
    \/ Unmount
    \/ CreateSettled
    \/ ImportSettled

CreatorSpec == CreatorInit /\ [][CreatorNext]_vars

\* C18: a project creation and an image import are never in flight together,
\* nor two of either; createProject or importImagesForProject invoked while
\* one of them is in flight sends no request and changes no state.
C18_OneOperationInFlight ==
    /\ creatorBackend.create + creatorBackend.import <= 1
    /\ (/\ creatorBackend.last.op \in {"createProject", "importImagesForProject"}
        /\ creatorBackend.last.inflight.create + creatorBackend.last.inflight.import > 0)
          => ~creatorBackend.last.sent /\ ~creatorBackend.last.changed

\* C19: createProject invoked while the post of an earlier createProject is
\* in flight asks that post's controller to abort and then sends its own; no
\* two posts of createProject are in flight together.
C19_SecondCancelsFirst ==
    /\ (/\ creatorBackend.last.op = "createProject"
        /\ creatorBackend.last.inflight.create > 0)
          => creatorBackend.last.aborted /\ creatorBackend.last.sent
    /\ creatorBackend.create <= 1

\* C23: every post of createProject and every post of importImagesForProject
\* in flight was sent with the signal of an AbortController, by which it can
\* be cancelled.
C23_RequestsCancellable ==
    /\ creatorBackend.create > 0 => creatorBackend.signals.create
    /\ creatorBackend.import > 0 => creatorBackend.signals.import

\* C26: a backend call of ProjectCreator that failed (the credential check,
\* a post) leaves the component's error message non-empty.
C26_FailureShowsMessage ==
    creatorBackend.last.outcome = "error" => creator.error # ""

\* C30: when the post of a createProject has settled, answered, refused or
\* aborted, loading and isCreatingRef are false and abortControllerRef is
\* null; and with no post of createProject in flight, a product selected and
\* the render committed, createProject passes its guards and sends its post.
C30_GuardReleased ==
    /\ creatorBackend.last.op = "createSettled"
          => /\ ~creator.loading
             /\ ~creator.isCreatingRef
             /\ creator.abortControllerRef = NoController
    /\ (/\ creatorBackend.mounted /\ Committed
        /\ creatorBackend.create = 0
        /\ ~Not(creator.selectedProduct))
          => createProject(creator).sent

\* A createProject sends its post after an earlier one was answered and
\* another was refused.
C30_Witness ==
    /\ creatorBackend.last.op = "createProject"
    /\ creatorBackend.last.sent
    /\ {"ok", "error"} \subseteq creatorBackend.settled

\* -------------------------------------------------------------- GatewaySpec
\* The operations the API service exports, each one call: the request goes
\* out, the backend answers or the network fails, the operation returns.

Operations ==
    {"getCompanies", "createCompany", "updateCompany", "deleteCompany",
     "getProducts", "createProduct", "updateProduct", "deleteProduct",
     "getClassCounts", "createClassCount", "updateClassCount", "deleteClassCount",
     "downloadAllImages"}

\* The message after || in the operation's catch.
Fallback(operation) ==
    CASE operation = "getCompanies" -> "Failed to fetch companies"
      [] operation = "createCompany" -> "Failed to create company"
      [] operation = "updateCompany" -> "Failed to update company"
      [] operation = "deleteCompany" -> "Failed to delete company"
      [] operation = "getProducts" -> "Failed to fetch products"
      [] operation = "createProduct" -> "Failed to create product"
      [] operation = "updateProduct" -> "Failed to update product"
      [] operation = "deleteProduct" -> "Failed to delete product"
      [] operation = "getClassCounts" -> "Failed to fetch classes"
      [] operation = "createClassCount" -> "Failed to create class"
      [] operation = "updateClassCount" -> "Failed to update class"
      [] operation = "deleteClassCount" -> "Failed to delete class"
      [] operation = "downloadAllImages" -> "Failed to download images"

\* The responseType the operation asks axios for.
responseType(operation) == IF operation = "downloadAllImages" THEN "blob" ELSE "json"

\* What the backend does with a request: it answers 2xx, it answers 4xx or
\* 5xx with a JSON body whose message may be missing or empty, or nothing
\* comes back at all.
BackendOutcomes ==
    {[kind |-> "ok", status |-> 200, message |-> undefined],
     [kind |-> "network", status |-> 0, message |-> undefined]}
        \cup [kind : {"status"}, status : {400, 404, 500},
              message : {undefined, "", "Name already exists"}]

\* The error axios rejects with: error.response is missing when nothing came
\* back; otherwise error.response.data is the body as the responseType has
\* axios deliver it, the parsed JSON or a Blob of its bytes.
AxiosError(operation, outcome) ==
    [hasResponse |-> outcome.kind = "status",
     data |-> IF outcome.kind # "status" THEN [type |-> "none", message |-> undefined]
              ELSE IF responseType(operation) = "blob"
              THEN [type |-> "Blob", message |-> undefined]
              ELSE [type |-> "object", message |-> outcome.message]]

\* error.response?.data?.message
DataMessage(error) == IF error.hasResponse THEN error.data.message ELSE undefined

\* What a call of the operation gives its caller: the object it returns, and
\* whether it threw instead.
Gateway(operation, outcome) ==
    IF outcome.kind = "ok"
    THEN [raised |-> FALSE, success |-> TRUE, error |-> undefined]
    ELSE [raised |-> FALSE, success |-> FALSE,
          error |-> OrElse(DataMessage(AxiosError(operation, outcome)),
                           Fallback(operation))]

GatewayInit ==
    /\ SessionIdle
    /\ HeaderIdle
    /\ ImageIdle
    /\ StepsIdle
    /\ CrudIdle
    /\ CreatorIdle
    /\ \E operation \in Operations :
          gateway = [stage |-> "sent", operation |-> operation]

\* The backend answers, or the network fails.
BackendAnswers ==
    /\ gateway.stage = "sent"
    /\ \E outcome \in BackendOutcomes :
          gateway' = [stage |-> "answered", operation |-> gateway.operation,
                      outcome |-> outcome]
    /\ UNCHANGED <<sessionVars, headerVars, imageVars, stepsVars, crudVars, creatorVars>>

\* The operation returns to its caller.
GatewayReturns ==
    /\ gateway.stage = "answered"
    /\ gateway' = [stage |-> "returned", operation |-> gateway.operation,
                   outcome |-> gateway.outcome,
                   result |-> Gateway(gateway.operation, gateway.outcome)]
    /\ UNCHANGED <<sessionVars, headerVars, imageVars, stepsVars, crudVars, creatorVars>>

GatewayNext ==
    \/ BackendAnswers
    \/ GatewayReturns

GatewaySpec == GatewayInit /\ [][GatewayNext]_vars

\* The backend's answer carries a message.
ServerMessageExists(outcome) ==
    outcome.kind = "status" /\ outcome.message \notin {undefined, ""}

\* C20: whatever the backend did, an operation of the API service returns and
\* does not throw; it returns success exactly when the backend answered 2xx,
\* and otherwise an error that is the message of the backend's answer when it
\* carries one and the operation's fallback message when it does not.
C20_GatewayResult ==
    gateway.stage = "returned"
        => /\ ~gateway.result.raised
           /\ gateway.result.success = (gateway.outcome.kind = "ok")
           /\ ~gateway.result.success
                 => gateway.result.error =
                        IF ServerMessageExists(gateway.outcome)
                        THEN gateway.outcome.message
                        ELSE Fallback(gateway.operation)

\* ----------------------------------------------------------------- RaceSpec
\* A CRUD view whose handlers are fired concurrently: handleAdd is invoked
\* again while an earlier handleAdd is still in flight (nothing in the handler
\* itself refuses that; only the button's disabled prop stands in the way),
\* and the backend answers every request, in any order.  crudBackend holds
\* the server's rows and the handlers in flight.

\* Writes fired in one behaviour.
MaxRaceWrites == 2

\* A handler in flight: its write is out, or its fetch is out (served: the
\* backend has read the rows the response will carry, which is then on its
\* way back).
Handler(n, call, stage, data) == [n |-> n, call |-> call, stage |-> stage, data |-> data]

RaceInit ==
    /\ SessionIdle
    /\ HeaderIdle
    /\ ImageIdle
    /\ StepsIdle
    /\ CreatorIdle
    /\ GatewayIdle
    /\ \E entity \in Entities :
       \E rows \in CrudLists(entity) :
          /\ crud = [CrudInitial(entity) EXCEPT !.items = rows, !.loading = FALSE]
          /\ crudBackend = [rows |-> rows, handlers |-> {}, writes |-> 0]

RaceAddShow ==
    /\ CrudNoModal
    /\ crud' = crud_handleAddShow(crud)
    /\ UNCHANGED <<sessionVars, headerVars, imageVars, stepsVars, creatorVars, gatewayVars, crudBackend>>

RaceChange ==
    /\ crud.showAddModal
    /\ \/ \E value \in Names : crud' = crud_handleChange(crud, "name", value)
       \/ /\ HasParent(crud.entity)
          /\ \E value \in {Str(id) : id \in ParentIds} :
                crud' = crud_handleChange(crud, "parent_id", value)
    /\ UNCHANGED <<sessionVars, headerVars, imageVars, stepsVars, creatorVars, gatewayVars, crudBackend>>

\* handleAdd is invoked, whether or not a handler is in flight.
RaceAdd ==
    /\ crud.showAddModal
    /\ crudBackend.writes < MaxRaceWrites
    /\ LET r == crud_handleAdd(crud)
       IN  /\ crud' = r.view
           /\ crudBackend' =
                 IF r.call = NoWrite THEN crudBackend
                 ELSE [crudBackend EXCEPT
                          !.handlers = @ \cup {Handler(crudBackend.writes + 1, r.call,
                                                       "write", {})},
                          !.writes = @ + 1]
    /\ UNCHANGED <<sessionVars, headerVars, imageVars, stepsVars, creatorVars, gatewayVars>>

\* The backend carries out a write and its handler goes on to the fetch.
RaceWriteSettled ==
    \E h \in crudBackend.handlers :
        /\ h.stage = "write"
        /\ crud' = crud_writeSettled(crud, h.call.op, Response(TRUE, {}))
        /\ crudBackend' =
              [crudBackend EXCEPT
                  !.rows = ApplyWrite(@, h.call),
                  !.handlers = (@ \ {h}) \cup {Handler(h.n, h.call, "fetch", {})}]
        /\ UNCHANGED <<sessionVars, headerVars, imageVars, stepsVars, creatorVars, gatewayVars>>

\* The backend answers a get with the rows it holds.
RaceFetchServed ==
    \E h \in crudBackend.handlers :
        /\ h.stage = "fetch"
        /\ crudBackend' =
              [crudBackend EXCEPT
                  !.handlers = (@ \ {h}) \cup {Handler(h.n, h.call, "served", crudBackend.rows)}]
        /\ UNCHANGED <<sessionVars, headerVars, imageVars, stepsVars, creatorVars, gatewayVars, crud>>

\* The response of a get arrives and the handler that awaited it finishes.
RaceFetched ==
    \E h \in crudBackend.handlers :
        /\ h.stage = "served"
        /\ crud' = crud_fetched(crud, h.call, Response(TRUE, h.data), Response(TRUE, {}))
        /\ crudBackend' = [crudBackend EXCEPT !.handlers = @ \ {h}]
        /\ UNCHANGED <<sessionVars, headerVars, imageVars, stepsVars, creatorVars, gatewayVars>>

RaceNext ==
    \/ RaceAddShow
    \/ RaceChange
    \/ RaceAdd
    \/ RaceWriteSettled
    \/ RaceFetchServed
    \/ RaceFetched

RaceSpec == RaceInit /\ [][RaceNext]_vars

MaxUploads == 2

DataUrl == "data:image/jpeg;base64"

CaptureInitial ==
    [productId |-> EmptyString, imgSrc |-> null, uploading |-> FALSE, message |-> "",
     rendered |-> [productId |-> EmptyString, imgSrc |-> null, uploading |-> FALSE]]

capture_commit(P) ==
    [P EXCEPT !.rendered = [productId |-> P.productId, imgSrc |-> P.imgSrc,
                            uploading |-> P.uploading]]

\* What the post of an upload throws, by the kind of failure: the server
\* answered with a status outside 2xx (error is the body's error field,
\* undefined without one), the network failed before any response, the
\* browser aborted the request, or something that is no Error was thrown.
\* response is a sequence, empty without a response.
UploadError(kind, error) ==
    [kind |-> kind,
     response |-> IF kind = "response" THEN <<[data |-> [error |-> error]]>> ELSE <<>>,
     message |-> CASE kind = "response" -> "Request failed with status code 500"
                   [] kind = "network" -> "Network Error"
                   [] kind = "aborted" -> "Request aborted"
                   [] OTHER -> undefined]

UploadErrors ==
    {UploadError("response", e) : e \in {undefined, "", "File too large"}}
        \cup {UploadError(k, undefined) : k \in {"network", "aborted", "unknown"}}

\* err.message.toLowerCase().includes("network")
IncludesNetwork(message) == message \in {"Network Error"}

\* err.response && err.response.data && err.response.data.error
ServerError(err) ==
    IF err.response = <<>> THEN undefined ELSE err.response[1].data.error

\* What a handler of CaptureImage did: the component it left, whether it
\* sent its post, whether it called onImageUploaded.
Uploaded(P, sent, refreshed) == [capture |-> P, sent |-> sent, refreshed |-> refreshed]

\* handleUpload up to its await; the values it tests are its render's.
handleUpload(P) ==
    IF P.rendered.imgSrc = null \/ Not(P.rendered.productId)
    THEN Uploaded([P EXCEPT !.message = "Please capture an image and select a product."],
                  FALSE, FALSE)
    ELSE IF P.rendered.uploading
    THEN Uploaded(P, FALSE, FALSE)
    ELSE Uploaded([P EXCEPT !.uploading = TRUE, !.message = ""], TRUE, FALSE)

\* An upload that takes every failure without a server error for a success.
uploadSettled_AssumeSuccess(P, ok, err) ==
    IF ~ok /\ ServerError(err) \notin {undefined, ""}
    THEN Uploaded([P EXCEPT !.message = "Upload failed: " \o ServerError(err),
                            !.uploading = FALSE], FALSE, FALSE)
    ELSE Uploaded([P EXCEPT !.message = "Image uploaded successfully!",
                            !.imgSrc = null, !.uploading = FALSE], FALSE, TRUE)

\* handleUpload from the point its post settles: answered (ok) or failed
\* with err.
uploadSettled(P, ok, err) ==
    LET T == IF ok
             THEN Uploaded([P EXCEPT !.message = "Image uploaded successfully!",
                                     !.imgSrc = null], FALSE, TRUE)
             ELSE IF ServerError(err) \notin {undefined, ""}
             THEN Uploaded([P EXCEPT !.message = "Upload failed: " \o ServerError(err)],
                           FALSE, FALSE)
             ELSE IF err.message # undefined /\ IncludesNetwork(err.message)
             THEN Uploaded([P EXCEPT
                               !.message = "Image uploaded successfully! (network error, but likely succeeded)",
                               !.imgSrc = null], FALSE, TRUE)
             ELSE Uploaded([P EXCEPT !.message = "Upload failed (network or unknown error)."],
                           FALSE, FALSE)
    IN  [T EXCEPT !.capture.uploading = FALSE]

\* What ran last in CaptureImage: the handler, the failure it met, the
\* component as it found it, whether it sent a post and whether it called
\* onImageUploaded.
CaptureRan(op, outcome, before, sent, refreshed) ==
    [op |-> op, outcome |-> outcome, before |-> before, sent |-> sent,
     refreshed |-> refreshed]

\* --------------------------------------------------------------- UploadSpec
\* CaptureImage with its products loaded: a user who takes pictures, chooses
\* a product and clicks the upload button as the DOM allows, a click repeated
\* before the render it asked for has committed, and a backend that answers
\* each post or fails.

UploadInit ==
    /\ SessionIdle
    /\ HeaderIdle
    /\ StepsIdle
    /\ CrudIdle
    /\ CreatorIdle
    /\ GatewayIdle
    /\ imagePage = NotMounted
    /\ imageBackend = NotMounted
    /\ capture = CaptureInitial
    /\ captureBackend = [posts |-> 0,
                         last |-> CaptureRan("mount", "none", CaptureInitial, FALSE, FALSE)]

CaptureCommitted == capture = capture_commit(capture)

CaptureCommit ==
    /\ ~CaptureCommitted
    /\ capture' = capture_commit(capture)
    /\ UNCHANGED <<sessionVars, headerVars, stepsVars, crudVars, creatorVars, gatewayVars,
                   captureBackend, imagePage, imageBackend>>

\* A click on the capture button: capture() stores the screenshot.
CaptureShot ==
    /\ CaptureCommitted
    /\ capture.imgSrc = null
    /\ capture' = [capture EXCEPT !.imgSrc = DataUrl]
    /\ captureBackend' =
          [captureBackend EXCEPT !.last = CaptureRan("capture", "none", capture, FALSE, FALSE)]
    /\ UNCHANGED <<sessionVars, headerVars, stepsVars, crudVars, creatorVars, gatewayVars,
                   imagePage, imageBackend>>

\* The user chooses an <option> of the product select.
ChooseProduct ==
    /\ CaptureCommitted
    /\ \E value \in {EmptyString, Str(1)} :
          /\ value # capture.productId
          /\ capture' = [capture EXCEPT !.productId = value]
    /\ captureBackend' =
          [captureBackend EXCEPT
              !.last = CaptureRan("setProductId", "none", capture, FALSE, FALSE)]
    /\ UNCHANGED <<sessionVars, headerVars, stepsVars, crudVars, creatorVars, gatewayVars,
                   imagePage, imageBackend>>

\* A click on the upload button, there while imgSrc is set and disabled
\* while uploading.
UploadClicked ==
    /\ CaptureCommitted \/ captureBackend.last.op = "handleUpload"
    /\ capture.rendered.imgSrc # null
    /\ ~capture.rendered.uploading
    /\ captureBackend.posts < MaxUploads
    /\ LET r == handleUpload(capture)
       IN  /\ capture' = r.capture
           /\ captureBackend' =
                 [posts |-> IF r.sent THEN captureBackend.posts + 1 ELSE captureBackend.posts,
                  last |-> CaptureRan("handleUpload", "invoked", capture, r.sent, r.refreshed)]
    /\ UNCHANGED <<sessionVars, headerVars, stepsVars, crudVars, creatorVars, gatewayVars,
                   imagePage, imageBackend>>

\* A post settles, and handleUpload runs to its end.
UploadSettled ==
    /\ captureBackend.posts > 0
    /\ CaptureCommitted
    /\ \E ok \in BOOLEAN, err \in UploadErrors :
          /\ ok => err = UploadError("unknown", undefined)
          /\ LET r == uploadSettled(capture, ok, err)
             IN  /\ capture' = r.capture
                 /\ captureBackend' =
                       [posts |-> captureBackend.posts - 1,
                        last |-> CaptureRan("uploadSettled",
                                            IF ok THEN [kind |-> "ok"] ELSE err,
                                            capture, FALSE, r.refreshed)]
    /\ UNCHANGED <<sessionVars, headerVars, stepsVars, crudVars, creatorVars, gatewayVars,
                   imagePage, imageBackend>>

UploadNext ==
    \/ CaptureCommit
    \/ CaptureShot
    \/ ChooseProduct
    \/ UploadClicked
    \/ UploadSettled

UploadSpec == UploadInit /\ [][UploadNext]_vars

\* C21: an upload refused with an error of the server shows "Upload failed"
\* with that error, keeps the image and calls no refresh; one that fails on
\* the network without a response shows the success message with its
\* warning, clears the image and calls the refresh, as an answered upload
\* does but for the warning; any other failure shows a failure message and
\* calls no refresh; and uploading is false when a handler has ended.
C21_UploadOutcomePolicy ==
    LET ran == captureBackend.last
        err == ran.outcome
        server == err.kind = "response" /\ err.response[1].data.error \notin {undefined, ""}
    IN  /\ (ran.op = "uploadSettled" \/ (ran.op = "handleUpload" /\ ~ran.sent))
              => ~capture.uploading
        /\ ran.op = "uploadSettled" =>
              CASE err.kind = "ok" ->
                      /\ capture.message = "Image uploaded successfully!"
                      /\ capture.imgSrc = null
                      /\ ran.refreshed
                [] server ->
                      /\ capture.message = "Upload failed: " \o err.response[1].data.error
                      /\ capture.imgSrc = ran.before.imgSrc
                      /\ ~ran.refreshed
                [] err.kind = "network" ->
                      /\ capture.message
                            = "Image uploaded successfully! (network error, but likely succeeded)"
                      /\ capture.imgSrc = null
                      /\ ran.refreshed
                [] OTHER ->
                      /\ capture.message = "Upload failed (network or unknown error)."
                      /\ ~ran.refreshed

\* An upload failed on the network while its picture was still held: the
\* picture is cleared and the refresh called.
C21_Witness ==
    /\ captureBackend # NotMounted
    /\ captureBackend.last.op = "uploadSettled"
    /\ captureBackend.last.outcome.kind = "network"
    /\ captureBackend.last.before.imgSrc # null
    /\ captureBackend.last.refreshed

\* --------------------------------------------------------- ImageManagerPage
\* The state hooks of ImageManagerPage.  An image is a record of its id and
\* its product; a product belongs to one company.

\* Requests of one ImageManagerPage since its mount: fetches, deletions.
MaxFetches == 2
MaxDeletes == 2

CompanyIds == {1, 2}
AllProducts == {[id |-> 1, company_id |-> 1], [id |-> 2, company_id |-> 2]}
Image(id, product_id) == [id |-> id, product_id |-> product_id]
AllImages == {Image(1, 1), Image(2, 1), Image(3, 2)}

\* prodRes.data.filter(p => String(p.company_id) === String(selectedCompany))
ProductsOf(products, selectedCompany) ==
    {p \in products : Str(p.company_id) = selectedCompany}

\* GET /companies/<selectedCompany>/images as the backend answers it.
ImagesOf(images, selectedCompany) ==
    {img \in images : \E p \in ProductsOf(AllProducts, selectedCompany) : p.id = img.product_id}

ImagePageInitial ==
    [selectedCompany |-> EmptyString, images |-> {}, products |-> {},
     loading |-> FALSE, message |-> ""]

\* The images the page shows with a Delete button: those of groupedImages,
\* while a company is selected and the page is not loading.
groupedImages(P) ==
    IF Not(P.selectedCompany) \/ P.loading THEN {}
    ELSE {img \in P.images : \E p \in P.products : p.id = img.product_id}

\* The effect on selectedCompany up to the await of its requests.
selectCompany(P, value) ==
    IF Not(value) THEN [P EXCEPT !.selectedCompany = value]
    ELSE [P EXCEPT !.selectedCompany = value, !.loading = TRUE]

\* fetchData of that effect from the point its requests settle;
\* selectedCompany is the value the effect ran for.
fetchData(P, selectedCompany, ok, images, products) ==
    [(IF ok
      THEN [P EXCEPT !.images = images, !.products = ProductsOf(products, selectedCompany)]
      ELSE [P EXCEPT !.message = "Failed to load images/products."])
        EXCEPT !.loading = FALSE]

\* handleDelete from the point its request settles; images is the list of
\* the render whose button was clicked.
handleDeleteSettled(P, id, images, ok) ==
    IF ok THEN [P EXCEPT !.images = {img \in images : img.id # id}]
    ELSE [P EXCEPT !.message = "Failed to delete image."]

\* What ran last in ImageManagerPage, and the page as it found it.
ImageRan(op, ok, before) == [op |-> op, ok |-> ok, before |-> before]

\* ---------------------------------------------------------------- ImageSpec
\* ImageManagerPage with its companies loaded: a user who changes the company
\* and deletes the images shown, without waiting for the requests in flight,
\* and a backend that answers each request in any order or fails.

ImageInit ==
    /\ SessionIdle
    /\ HeaderIdle
    /\ StepsIdle
    /\ CrudIdle
    /\ CreatorIdle
    /\ GatewayIdle
    /\ capture = NotMounted
    /\ captureBackend = NotMounted
    /\ imagePage = ImagePageInitial
    /\ imageBackend = [images |-> AllImages, fetches |-> {}, sent |-> 0,
                       deletes |-> {}, issued |-> 0, deleted |-> {}, failed |-> FALSE,
                       last |-> ImageRan("mount", TRUE, ImagePageInitial)]

\* The user chooses an <option> of the company select; the effect runs.
SelectCompany ==
    /\ imageBackend.sent < MaxFetches
    /\ \E value \in {EmptyString} \cup {Str(c) : c \in CompanyIds} :
          /\ value # imagePage.selectedCompany
          /\ imagePage' = selectCompany(imagePage, value)
          /\ imageBackend' =
                [imageBackend EXCEPT
                    !.fetches = IF Not(value) THEN @
                                ELSE @ \cup {[n |-> imageBackend.sent + 1, company |-> value]},
                    !.sent = IF Not(value) THEN @ ELSE @ + 1,
                    !.last = ImageRan("selectCompany", TRUE, imagePage)]
    /\ UNCHANGED <<sessionVars, headerVars, stepsVars, crudVars, creatorVars, gatewayVars,
                   capture, captureBackend>>

\* The two gets of one run of the effect settle.
ImagesFetched ==
    /\ \E fetch \in imageBackend.fetches, ok \in BOOLEAN :
          /\ imagePage' = fetchData(imagePage, fetch.company, ok,
                                    ImagesOf(imageBackend.images, fetch.company), AllProducts)
          /\ imageBackend' =
                [imageBackend EXCEPT
                    !.fetches = @ \ {fetch},
                    !.failed = @ \/ ~ok,
                    !.last = ImageRan("fetchData", ok, imagePage)]
    /\ UNCHANGED <<sessionVars, headerVars, stepsVars, crudVars, creatorVars, gatewayVars,
                   capture, captureBackend>>

\* A click on the Delete button of an image shown, confirmed.
DeleteClicked ==
    /\ imageBackend.issued < MaxDeletes
    /\ \E img \in groupedImages(imagePage) :
          /\ \A d \in imageBackend.deletes : d.id # img.id
          /\ imageBackend' =
                [imageBackend EXCEPT
                    !.deletes = @ \cup {[id |-> img.id, images |-> imagePage.images]},
                    !.issued = @ + 1,
                    !.last = ImageRan("handleDelete", TRUE, imagePage)]
    /\ UNCHANGED <<sessionVars, headerVars, stepsVars, crudVars, creatorVars, gatewayVars,
                   capture, captureBackend, imagePage>>

\* The delete request of a handleDelete settles.
DeleteSettled ==
    /\ \E d \in imageBackend.deletes, ok \in BOOLEAN :
          /\ imagePage' = handleDeleteSettled(imagePage, d.id, d.images, ok)
          /\ imageBackend' =
                [imageBackend EXCEPT
                    !.images = IF ok THEN {img \in @ : img.id # d.id} ELSE @,
                    !.deleted = IF ok THEN @ \cup {d.id} ELSE @,
                    !.deletes = @ \ {d},
                    !.last = ImageRan("deleteSettled", ok, imagePage)]
    /\ UNCHANGED <<sessionVars, headerVars, stepsVars, crudVars, creatorVars, gatewayVars,
                   capture, captureBackend>>

ImageNext ==
    \/ SelectCompany
    \/ ImagesFetched
    \/ DeleteClicked
    \/ DeleteSettled

ImageSpec == ImageInit /\ [][ImageNext]_vars

\* C28: with no deletion and no fetch pending, no image whose deletion
\* succeeded is in the page's list, whatever the order in which deletions
\* were started and completed; a deletion that failed left the list as it
\* was.
C28_DeletedImagesGone ==
    /\ (imageBackend.deletes = {} /\ imageBackend.fetches = {})
          => \A img \in imagePage.images : img.id \notin imageBackend.deleted
    /\ (imageBackend.last.op = "deleteSettled" /\ ~imageBackend.last.ok)
          => imagePage.images = imageBackend.last.before.images

\* C29: with no fetch pending, a company selected, no fetch failed and no
\* deletion made, the page's images and products are those of the selected
\* company, whatever the order in which the responses arrived.
C29_SelectedCompanyShown ==
    (/\ imageBackend.fetches = {}
     /\ ~Not(imagePage.selectedCompany)
     /\ ~imageBackend.failed
     /\ imageBackend.issued = 0)
        => /\ imagePage.images = ImagesOf(imageBackend.images, imagePage.selectedCompany)
           /\ imagePage.products = ProductsOf(AllProducts, imagePage.selectedCompany)
====
